---------------------------- MODULE Spec2Model ----------------------------
(***************************************************************************)
(* Model of the UTM builder bot (src/main.go): the per-user session state  *)
(* machine driven by Telegram messages and callback queries, the sanitizer *)
(* of free-text values and the assembly of the final link.                 *)
(*                                                                         *)
(* Text.  A Go string is modelled as the sequence of its runes.  A rune is *)
(* a TLA+ string: an ASCII character is the one-character string holding   *)
(* it, a non-ASCII character is named by its code point ("U+015F" is the   *)
(* letter s-cedilla).  Runes("abc") = <<"a", "b", "c">>.                   *)
(***************************************************************************)
EXTENDS Integers, Sequences, FiniteSets, TLC

VARIABLES
    sessions,   \* main.go:35   map[int64]*UserSession, keyed by the user's id
    update,     \* main.go:60   the update the loop of main is handling;
                \*              NoUpdate while it waits for the next one
    before,     \* sessions as it was when update was received
    sent,       \* the requests made to the Bot API while handling update, in order
    scriptPos,  \* number of events of Script already delivered (SpecScenario)
    input,      \* argument of the function under test (SpecSanitize)
    output,     \* results computed from input so far (SpecSanitize)
    stage,      \* how many times the function has been applied (SpecSanitize)
    sendErrors, \* the requests of sent whose send returned an error (SpecDelivery)
    channel,    \* main.go:58  the updates received and not yet taken by the loop,
                \*             each with its number (SpecLoop)
    delivered,  \* how many updates have been put on the channel (SpecLoop)
    taken,      \* the number of the update the loop took last (SpecLoop)
    notified,   \* how many orders the HTTP endpoint has handled (SpecLoop)
    orders,     \* README.md:171-175  the order_id of the rows of table orders,
                \*                    in the order of their insertion (SpecIngest)
    notices,    \* the messages handleThrowData has handed to globalBot.Send
                \* for the request it handles or handled last (SpecIngest)
    response    \* the request of handleThrowData, the table it found and the
                \* status of its answer (SpecIngest)

\* README.md:310-367  what the endpoint has answered to: nothing yet
NoResponse == [status |-> "none", request |-> <<>>, found |-> <<>>]

\* the variables of SpecLoop and SpecIngest
feed == <<channel, delivered, taken, notified, orders, notices, response>>

vars ==
    <<sessions, update, before, sent, scriptPos, input, output, stage, sendErrors,
      channel, delivered, taken, notified, orders, notices, response>>

\* nothing on the channel, no order received
NoFeed ==
    /\ channel = <<>> /\ delivered = 0 /\ taken = 0 /\ notified = 0
    /\ orders = <<>> /\ notices = <<>> /\ response = NoResponse

-----------------------------------------------------------------------------
(* Strings *)

Runes(s) == [i \in 1..Len(s) |-> SubSeq(s, i, i)]

\* F(e), with e evaluated once: the local variables of the code
With(e, F(_)) == CHOOSE y \in {F(x) : x \in {e}} : TRUE

\* strings.ReplaceAll(value, old, new) for one-rune old and new
ReplaceAll(value, old, new) ==
    [i \in 1..Len(value) |-> IF value[i] = old THEN new ELSE value[i]]

UpperASCII == Runes("ABCDEFGHIJKLMNOPQRSTUVWXYZ")
LowerASCII == Runes("abcdefghijklmnopqrstuvwxyz")

\* The non-ASCII letters of the replacement table, upper case then lower case
\*   U+015E S-cedilla   U+015F s-cedilla     U+0130 I-dotted   U+0131 i-dotless
\*   U+011E G-breve     U+011F g-breve       U+00DC U-umlaut   U+00FC u-umlaut
\*   U+00D6 O-umlaut    U+00F6 o-umlaut      U+00C7 C-cedilla  U+00E7 c-cedilla
UpperTurkish == <<"U+015E", "U+0130", "U+011E", "U+00DC", "U+00D6", "U+00C7">>
\* unicode.ToLower of each: U+0130 has the simple lower-case mapping "i"
LowerOfUpperTurkish == <<"U+015F", "i", "U+011F", "U+00FC", "U+00F6", "U+00E7">>

PosIn(seq, r) == CHOOSE i \in 1..Len(seq) : seq[i] = r

\* unicode.ToLower on the letters that have an upper case here
LowerOf ==
    [r \in {UpperASCII[i] : i \in 1..Len(UpperASCII)}
            \cup {UpperTurkish[i] : i \in 1..Len(UpperTurkish)} |->
        IF \E i \in 1..Len(UpperASCII) : UpperASCII[i] = r
        THEN LowerASCII[PosIn(UpperASCII, r)]
        ELSE LowerOfUpperTurkish[PosIn(UpperTurkish, r)]]

\* unicode.ToLower(r), as strings.ToLower applies it rune by rune
ToLowerRune(r) == IF r \in DOMAIN LowerOf THEN LowerOf[r] ELSE r

ToLower(s) == [i \in 1..Len(s) |-> ToLowerRune(s[i])]

-----------------------------------------------------------------------------
(* Sanitizer: main.go:354-390 *)

\* main.go:366-379  replacements := map[rune]rune{...}
replacements ==
    [r \in {"U+015F", "U+015E", "U+0131", "U+0130", "U+011F", "U+011E",
            "U+00FC", "U+00DC", "U+00F6", "U+00D6", "U+00E7", "U+00C7"} |->
        CASE r = "U+015F" -> "s"
          [] r = "U+015E" -> "S"
          [] r = "U+0131" -> "i"
          [] r = "U+0130" -> "I"
          [] r = "U+011F" -> "g"
          [] r = "U+011E" -> "G"
          [] r = "U+00FC" -> "u"
          [] r = "U+00DC" -> "U"
          [] r = "U+00F6" -> "o"
          [] r = "U+00D6" -> "O"
          [] r = "U+00E7" -> "c"
          [] r = "U+00C7" -> "C"]

\* replaceTurkishChars with every table letter mapped to the upper-case ASCII
\* letter: the right-hand sides of the table in the wrong case
replaceTurkishCharsUpper(s) ==
    [i \in 1..Len(s) |->
        IF s[i] \in DOMAIN replacements
        THEN IF \E j \in 1..Len(LowerASCII) : LowerASCII[j] = replacements[s[i]]
             THEN UpperASCII[PosIn(LowerASCII, replacements[s[i]])]
             ELSE replacements[s[i]]
        ELSE s[i]]

\* main.go:365-390
replaceTurkishChars(s) ==
    [i \in 1..Len(s) |->
        IF s[i] \in DOMAIN replacements THEN replacements[s[i]] ELSE s[i]]

\* sanitizeUTMValue without the call of strings.ToLower
sanitizeUTMValueKeepingCase(value) ==
    With(ReplaceAll(value, " ", "_"), LAMBDA spaced :
    replaceTurkishChars(spaced))

\* main.go:354-362
sanitizeUTMValue(value) ==
    With(ReplaceAll(value, " ", "_"), LAMBDA spaced :
    With(ToLower(spaced), LAMBDA lowered :
    replaceTurkishChars(lowered)))

-----------------------------------------------------------------------------
(* More strings.  The runes the model reads are the printable ASCII        *)
(* characters other than the double quote, the backslash and the backtick, *)
(* the line feed as the one control character, and the twelve letters of   *)
(* the replacement table.  Percent escapes, userinfo ("@") and IPv6        *)
(* literals ("[") in a URL are outside what the inputs below contain.      *)

\* strings.Index(s, r) counted from 1; 0 when r is not in s
Index(s, r) ==
    IF \E i \in 1..Len(s) : s[i] = r
    THEN CHOOSE i \in 1..Len(s) : s[i] = r /\ \A j \in 1..(i - 1) : s[j] # r
    ELSE 0

\* strings.LastIndex(s, r) counted from 1; 0 when r is not in s
LastIndex(s, r) ==
    IF \E i \in 1..Len(s) : s[i] = r
    THEN CHOOSE i \in 1..Len(s) : s[i] = r /\ \A j \in (i + 1)..Len(s) : s[j] # r
    ELSE 0

Count(s, r) == Cardinality({i \in 1..Len(s) : s[i] = r})

Contains(s, r) == \E i \in 1..Len(s) : s[i] = r

HasPrefix(s, p) == Len(s) >= Len(p) /\ SubSeq(s, 1, Len(p)) = p

From(s, i) == SubSeq(s, i, Len(s))

\* strings.Cut(s, sep) for a one-rune sep: what is before it, what is after it
CutBefore(s, sep) == IF Contains(s, sep) THEN SubSeq(s, 1, Index(s, sep) - 1) ELSE s
CutAfter(s, sep) == IF Contains(s, sep) THEN From(s, Index(s, sep) + 1) ELSE <<>>

InSeq(seq, r) == \E i \in 1..Len(seq) : seq[i] = r

Digits == Runes("0123456789")
Letters ==
    {UpperASCII[i] : i \in 1..Len(UpperASCII)} \cup {LowerASCII[i] : i \in 1..Len(LowerASCII)}
DigitSet == {Digits[i] : i \in 1..Len(Digits)}
IsLetter(r) == r \in Letters
IsDigit(r) == r \in DigitSet

\* ASCII in code order, in runs: 32-33, 35-91, 93-95, 97-126
AsciiRun1 == Runes(" !")
AsciiRun2 == Runes("#$%&'()*+,-./0123456789:;<=>?@ABCDEFGHIJKLMNOPQRSTUVWXYZ[")
AsciiRun3 == Runes("]^_")
AsciiRun4 == Runes("abcdefghijklmnopqrstuvwxyz{|}~")
HexDigits == Runes("0123456789ABCDEF")
HexVal(d) == PosIn(HexDigits, d) - 1

\* the runes of the model
AllRunes ==
    {"\n"} \cup {AsciiRun1[i] : i \in 1..Len(AsciiRun1)}
    \cup {AsciiRun2[i] : i \in 1..Len(AsciiRun2)}
    \cup {AsciiRun3[i] : i \in 1..Len(AsciiRun3)}
    \cup {AsciiRun4[i] : i \in 1..Len(AsciiRun4)}
    \cup DOMAIN replacements

\* the code point of every rune
CodeOf ==
    [r \in AllRunes |->
        IF r = "\n" THEN 10
        ELSE IF InSeq(AsciiRun1, r) THEN 31 + PosIn(AsciiRun1, r)
        ELSE IF InSeq(AsciiRun2, r) THEN 34 + PosIn(AsciiRun2, r)
        ELSE IF InSeq(AsciiRun3, r) THEN 92 + PosIn(AsciiRun3, r)
        ELSE IF InSeq(AsciiRun4, r) THEN 96 + PosIn(AsciiRun4, r)
        ELSE LET h == Runes(r)
             IN  4096 * HexVal(h[3]) + 256 * HexVal(h[4]) + 16 * HexVal(h[5])
                 + HexVal(h[6])]

Code(r) == CodeOf[r]

IsASCII(r) == Code(r) < 128

\* b < ' ' || b == 0x7f on some byte of s (net/url stringContainsCTLByte)
ContainsCTLByte(s) == \E i \in 1..Len(s) : Code(s[i]) < 32 \/ Code(s[i]) = 127

\* the UTF-8 bytes of a rune below U+0800
UTF8(r) ==
    IF Code(r) < 128 THEN <<Code(r)>>
    ELSE <<192 + (Code(r) \div 64), 128 + (Code(r) % 64)>>

\* "%XX" for one byte, upper-case hex (net/url escape)
PercentByte(x) == <<"%", HexDigits[(x \div 16) + 1], HexDigits[(x % 16) + 1]>>

\* "%XX" for every byte of the rune
PercentEncode(r) ==
    IF Len(UTF8(r)) = 1 THEN PercentByte(UTF8(r)[1])
    ELSE PercentByte(UTF8(r)[1]) \o PercentByte(UTF8(r)[2])

\* a < b as Go compares strings (byte-wise; UTF-8 keeps code point order)
StrLess(a, b) ==
    IF \E i \in 1..Len(a) : i <= Len(b) /\ a[i] # b[i]
    THEN With(CHOOSE i \in 1..Len(a) :
                 /\ i <= Len(b) /\ a[i] # b[i]
                 /\ \A j \in 1..(i - 1) : a[j] = b[j],
              LAMBDA i : Code(a[i]) < Code(b[i]))
    ELSE Len(a) < Len(b)

-----------------------------------------------------------------------------
(* net/url, as main.go uses it: url.Parse (main.go:290, 346), URL.Query,   *)
(* Values.Set, Values.Encode and URL.String (main.go:298-311).             *)

Unreserved == {"-", "_", ".", "~"}
Reserved == {"$", "&", "+", ",", "/", ":", ";", "=", "?", "@"}
HostSafe == {"!", "$", "&", "'", "(", ")", "*", "+", ",", ";", "=", ":", "[", "]", "<", ">"}

\* net/url shouldEscape(c, mode); mode is "host", "path", "query" or "fragment"
ShouldEscape(r, mode) ==
    IF IsLetter(r) \/ IsDigit(r) THEN FALSE
    ELSE IF mode = "host" /\ r \in HostSafe THEN FALSE
    ELSE IF r \in Unreserved THEN FALSE
    ELSE IF r \in Reserved /\ mode = "path" THEN r = "?"
    ELSE IF r \in Reserved /\ mode = "query" THEN TRUE
    ELSE IF r \in Reserved /\ mode = "fragment" THEN FALSE
    ELSE IF mode = "fragment" /\ r \in {"!", "(", ")", "*"} THEN FALSE
    ELSE TRUE

\* what net/url escape(s, mode) writes for one rune
EscapeRune(r, mode) ==
    IF ShouldEscape(r, mode)
    THEN IF r = " " /\ mode = "query" THEN <<"+">> ELSE PercentEncode(r)
    ELSE <<r>>

\* EscapeRune, tabulated
Escaped ==
    [mode \in {"host", "path", "query", "fragment"} |->
        [r \in AllRunes |-> EscapeRune(r, mode)]]

RECURSIVE EscapeFrom(_, _, _)
EscapeFrom(s, mode, i) ==
    IF i > Len(s) THEN <<>>
    ELSE Escaped[mode][s[i]] \o EscapeFrom(s, mode, i + 1)

\* net/url escape(s, mode)
Escape(s, mode) == EscapeFrom(s, mode, 1)

QueryEscape(s) == Escape(s, "query")

\* net/url ishex and unhex
IsHex(r) == IsDigit(r) \/ InSeq(Runes("ABCDEFabcdef"), r)
Unhex(r) ==
    IF InSeq(Runes("abcdef"), r) THEN 9 + PosIn(Runes("abcdef"), r) ELSE HexVal(r)

\* net/url unescape, first pass: TRUE when a '%' is not followed by two hex
\* digits (EscapeError)
UnescapeError(s) ==
    \E i \in 1..Len(s) :
        /\ s[i] = "%"
        /\ \/ i + 2 > Len(s)
           \/ ~IsHex(s[i + 1])
           \/ ~IsHex(s[i + 2])

\* the byte that "%XX" at position i of s stands for
ByteAt(s, i) == 16 * Unhex(s[i + 1]) + Unhex(s[i + 2])

\* the rune of a model text with this code point
RuneOfCode(c) == CHOOSE r \in AllRunes : Code(r) = c

RECURSIVE UnescapeFrom(_, _)
\* net/url unescape, second pass, in mode encodeQueryComponent: "%XX" is a
\* byte, '+' is a space; the bytes are UTF-8, of one byte or of two
UnescapeFrom(s, i) ==
    IF i > Len(s) THEN <<>>
    ELSE IF s[i] = "+" THEN <<" ">> \o UnescapeFrom(s, i + 1)
    ELSE IF s[i] # "%" THEN <<s[i]>> \o UnescapeFrom(s, i + 1)
    ELSE IF ByteAt(s, i) < 128
    THEN <<RuneOfCode(ByteAt(s, i))>> \o UnescapeFrom(s, i + 3)
    ELSE <<RuneOfCode(64 * (ByteAt(s, i) - 192) + (ByteAt(s, i + 3) - 128))>>
         \o UnescapeFrom(s, i + 6)

\* net/url QueryUnescape, on a text it accepts
QueryUnescape(s) ==
    IF ~Contains(s, "%") THEN ReplaceAll(s, "+", " ") ELSE UnescapeFrom(s, 1)

\* net/url getScheme: the loop stops at the first byte that is no letter and,
\* past the first byte, no digit, '+', '-' or '.'
IsSchemeStop(rawURL, i) ==
    /\ ~IsLetter(rawURL[i])
    /\ ~(i > 1 /\ (IsDigit(rawURL[i]) \/ rawURL[i] \in {"+", "-", "."}))

FirstSchemeStop(rawURL) ==
    IF \E i \in 1..Len(rawURL) : IsSchemeStop(rawURL, i)
    THEN CHOOSE i \in 1..Len(rawURL) :
            IsSchemeStop(rawURL, i) /\ \A j \in 1..(i - 1) : ~IsSchemeStop(rawURL, j)
    ELSE 0

\* net/url getScheme
getScheme(rawURL) ==
    With(FirstSchemeStop(rawURL), LAMBDA i :
        IF i = 0 THEN [scheme |-> <<>>, rest |-> rawURL, err |-> FALSE]
        ELSE IF rawURL[i] # ":" THEN [scheme |-> <<>>, rest |-> rawURL, err |-> FALSE]
        ELSE IF i = 1 THEN [scheme |-> <<>>, rest |-> <<>>, err |-> TRUE]
        ELSE [scheme |-> SubSeq(rawURL, 1, i - 1), rest |-> From(rawURL, i + 1),
              err |-> FALSE])

\* net/url validOptionalPort
validOptionalPort(port) ==
    \/ port = <<>>
    \/ port[1] = ":" /\ \A i \in 2..Len(port) : IsDigit(port[i])

\* net/url parseAuthority / parseHost without userinfo: TRUE when they fail
HostError(host) ==
    \/ Contains(host, ":") /\ ~validOptionalPort(From(host, LastIndex(host, ":")))
    \/ \E i \in 1..Len(host) : IsASCII(host[i]) /\ ShouldEscape(host[i], "host")

EmptyURL ==
    [err |-> FALSE, Scheme |-> <<>>, Opaque |-> <<>>, Host |-> <<>>, Path |-> <<>>,
     RawPath |-> <<>>, OmitHost |-> FALSE, ForceQuery |-> FALSE, RawQuery |-> <<>>,
     Fragment |-> <<>>, RawFragment |-> <<>>]

ErrorURL == [EmptyURL EXCEPT !.err = TRUE]

\* net/url URL.setPath
setPath(u, p) ==
    [u EXCEPT !.Path = p, !.RawPath = IF Escape(p, "path") = p THEN <<>> ELSE p]

\* net/url URL.setFragment
setFragment(u, f) ==
    [u EXCEPT !.Fragment = f, !.RawFragment = IF Escape(f, "fragment") = f THEN <<>> ELSE f]

\* net/url parse: from the authority on; u holds scheme and query
parseRest(u, rest) ==
    IF ~HasPrefix(rest, <<"/">>) /\ u.Scheme # <<>>
    THEN [u EXCEPT !.Opaque = rest]
    ELSE IF ~HasPrefix(rest, <<"/">>) /\ Contains(CutBefore(rest, "/"), ":")
    THEN ErrorURL
    ELSE IF (u.Scheme # <<>> \/ ~HasPrefix(rest, <<"/", "/", "/">>))
            /\ HasPrefix(rest, <<"/", "/">>)
    THEN With(From(rest, 3), LAMBDA authority :
         With(CutBefore(authority, "/"), LAMBDA host :
         With(IF Contains(authority, "/") THEN From(authority, Index(authority, "/"))
              ELSE <<>>, LAMBDA path :
            IF HostError(host) THEN ErrorURL
            ELSE setPath([u EXCEPT !.Host = host], path))))
    ELSE IF u.Scheme # <<>> /\ HasPrefix(rest, <<"/">>)
    THEN setPath([u EXCEPT !.OmitHost = TRUE], rest)
    ELSE setPath(u, rest)

\* net/url parse: the query is split off what follows the scheme
parseQueryPart(scheme, rest) ==
    IF rest # <<>> /\ rest[Len(rest)] = "?" /\ Count(rest, "?") = 1
    THEN With(SubSeq(rest, 1, Len(rest) - 1), LAMBDA r :
            parseRest([EmptyURL EXCEPT !.Scheme = scheme, !.ForceQuery = TRUE], r))
    ELSE With(CutBefore(rest, "?"), LAMBDA r :
            parseRest([EmptyURL EXCEPT !.Scheme = scheme, !.RawQuery = CutAfter(rest, "?")],
                      r))

\* net/url parse(rawURL, viaRequest = false)
parse(rawURL) ==
    IF ContainsCTLByte(rawURL) THEN ErrorURL
    ELSE IF rawURL = <<"*">> THEN [EmptyURL EXCEPT !.Path = <<"*">>]
    ELSE With(getScheme(rawURL), LAMBDA gs :
            IF gs.err THEN ErrorURL
            ELSE With(ToLower(gs.scheme), LAMBDA scheme : parseQueryPart(scheme, gs.rest)))

\* net/url Parse
Parse(rawURL) ==
    With(parse(CutBefore(rawURL, "#")), LAMBDA url :
    With(CutAfter(rawURL, "#"), LAMBDA frag :
        IF url.err THEN ErrorURL
        ELSE IF frag = <<>> THEN url
        ELSE setFragment(url, frag)))

\* net/url validEncoded(s, mode)
validEncoded(s, mode) ==
    \A i \in 1..Len(s) :
        \/ s[i] \in {"!", "$", "&", "'", "(", ")", "*", "+", ",", ";", "=", ":", "@",
                     "[", "]", "%"}
        \/ ~ShouldEscape(s[i], mode)

\* net/url URL.EscapedPath (no percent escapes: unescape(RawPath) = RawPath)
EscapedPath(u) ==
    IF u.RawPath # <<>> /\ validEncoded(u.RawPath, "path") /\ u.RawPath = u.Path
    THEN u.RawPath
    ELSE IF u.Path = <<"*">> THEN <<"*">>
    ELSE Escape(u.Path, "path")

\* net/url URL.EscapedFragment
EscapedFragment(u) ==
    IF u.RawFragment # <<>> /\ validEncoded(u.RawFragment, "fragment")
       /\ u.RawFragment = u.Fragment
    THEN u.RawFragment
    ELSE Escape(u.Fragment, "fragment")

\* net/url URL.String, up to the path, when Opaque is empty; path is EscapedPath
StringHead(u, path) ==
    With((IF u.Scheme # <<>> THEN u.Scheme \o <<":">> ELSE <<>>)
         \o (IF (u.Scheme # <<>> \/ u.Host # <<>>) /\ ~(u.OmitHost /\ u.Host = <<>>)
             THEN (IF u.Host # <<>> \/ u.Path # <<>> THEN <<"/", "/">> ELSE <<>>)
                  \o Escape(u.Host, "host")
             ELSE <<>>)
         \o (IF path # <<>> /\ path[1] # "/" /\ u.Host # <<>> THEN <<"/">> ELSE <<>>),
         LAMBDA buf :
            buf
            \o (IF buf = <<>> /\ Contains(CutBefore(path, "/"), ":") THEN <<".", "/">>
                ELSE <<>>)
            \o path)

\* net/url URL.String (User is always nil here)
String(u) ==
    (IF u.Opaque # <<>>
     THEN (IF u.Scheme # <<>> THEN u.Scheme \o <<":">> ELSE <<>>) \o u.Opaque
     ELSE With(EscapedPath(u), LAMBDA path : StringHead(u, path)))
    \o (IF u.ForceQuery \/ u.RawQuery # <<>> THEN <<"?">> \o u.RawQuery ELSE <<>>)
    \o (IF u.Fragment # <<>> THEN <<"#">> \o EscapedFragment(u) ELSE <<>>)

\* url.Values is map[string][]string: a function from keys to value lists
EmptyValues == [k \in {} |-> <<>>]

\* m[key] = append(m[key], value)
ValuesAdd(m, key, value) ==
    IF key \in DOMAIN m THEN [m EXCEPT ![key] = Append(@, value)]
    ELSE (key :> <<value>>) @@ m

\* Values.Add where main.go calls Values.Set: the value is appended to those
\* the key already has
ValuesSetAppending(m, key, value) == ValuesAdd(m, key, value)

\* net/url Values.Set
ValuesSet(m, key, value) == (key :> <<value>>) @@ m

RECURSIVE parseQuery(_, _)
\* net/url parseQuery(m, query); the error it reports is dropped by URL.Query
parseQuery(m, query) ==
    IF query = <<>> THEN m
    ELSE With(CutBefore(query, "&"), LAMBDA piece :
         With(CutAfter(query, "&"), LAMBDA rest :
            IF Contains(piece, ";") \/ piece = <<>> \/ UnescapeError(piece)
            THEN parseQuery(m, rest)
            ELSE With(ValuesAdd(m, QueryUnescape(CutBefore(piece, "=")),
                                QueryUnescape(CutAfter(piece, "="))),
                      LAMBDA added : parseQuery(added, rest))))

\* net/url URL.Query
Query(u) == parseQuery(EmptyValues, u.RawQuery)

\* k put into the sorted list keys, after the keys less than it
Insert(keys, k) ==
    With(Cardinality({i \in 1..Len(keys) : StrLess(keys[i], k)}), LAMBDA n :
        SubSeq(keys, 1, n) \o <<k>> \o SubSeq(keys, n + 1, Len(keys)))

RECURSIVE SortInto(_, _)
SortInto(keys, S) ==
    IF S = {} THEN keys
    ELSE With(CHOOSE k \in S : TRUE, LAMBDA k : SortInto(Insert(keys, k), S \ {k}))

\* sort.Strings with the comparison the wrong way round: descending
SortStringsDescending(S) ==
    With(SortInto(<<>>, S), LAMBDA keys :
        SubSeq([i \in 1..Len(keys) |-> keys[Len(keys) + 1 - i]], 1, Len(keys)))

\* sort.Strings on the keys of a map: a set of distinct strings
SortStrings(S) == SortInto(<<>>, S)

RECURSIVE EncodeValues(_, _, _, _)
\* Values.Encode: the inner loop, over the values vs of key k from the i-th on
EncodeValues(buf, k, vs, i) ==
    IF i > Len(vs) THEN buf
    ELSE With((IF buf # <<>> THEN buf \o <<"&">> ELSE buf)
              \o QueryEscape(k) \o <<"=">> \o QueryEscape(vs[i]),
              LAMBDA b : EncodeValues(b, k, vs, i + 1))

RECURSIVE EncodeKeys(_, _, _, _)
\* Values.Encode: the outer loop, over the sorted keys from the i-th on
EncodeKeys(buf, m, keys, i) ==
    IF i > Len(keys) THEN buf
    ELSE With(EncodeValues(buf, keys[i], m[keys[i]], 1),
              LAMBDA b : EncodeKeys(b, m, keys, i + 1))

\* net/url Values.Encode
Encode(m) ==
    With(SortStrings(DOMAIN m), LAMBDA keys : EncodeKeys(<<>>, m, keys, 1))

-----------------------------------------------------------------------------
(* The bot: main.go:24-342 *)

NumUsers == 2
Users == 1..NumUsers

\* main.go:39, 42
utmSourceOptions ==
    <<Runes("meta"), Runes("google"), Runes("tiktok"), Runes("linkedin"),
      Runes("sms"), Runes("email"), Runes("x")>>
utmMediumOptions ==
    <<Runes("paid_social"), Runes("cpc"), Runes("display"), Runes("paid_search"),
      Runes("sms"), Runes("email"), Runes("organic_social")>>

\* main.go:24-32 with main.go:136  &UserSession{Step: 1}
NewSession ==
    [Step |-> 1, SourceURL |-> <<>>, UTMSource |-> <<>>, UTMMedium |-> <<>>,
     Campaign |-> <<>>, Content |-> <<>>, Term |-> <<>>]

\* main.go:35  the empty map
NoSessions == [u \in {} |-> NewSession]

\* sessions[userID] = session
MapPut(store, userID, session) ==
    [u \in DOMAIN store \cup {userID} |-> IF u = userID THEN session ELSE store[u]]

\* a delete that empties the map
MapDeleteAll(store, userID) == [u \in {} |-> store[u]]

\* delete(sessions, userID)
MapDelete(store, userID) == [u \in DOMAIN store \ {userID} |-> store[u]]

\* A request to the Bot API: tgbotapi.NewMessage(chatID, ...) handed to bot.Send,
\* or the callback answer handed to bot.Request.  kind names the fixed text,
\* body lists the values formatted into it, rows is the inline keyboard.
Request(chatID, kind, body, rows) ==
    [chat |-> chatID, kind |-> kind, body |-> body, rows |-> rows]

Msg(chatID, kind) == Request(chatID, kind, <<>>, <<>>)

\* tgbotapi.NewInlineKeyboardButtonData(text, data)
Button(text, data) == [text |-> text, data |-> data]

RECURSIVE KeyboardRowsFullOnly(_, _, _, _, _)
\* the grouping loop without the test for the last option: a row is
\* appended only when it is full
KeyboardRowsFullOnly(options, width, i, currentRow, rows) ==
    IF i > Len(options) THEN rows
    ELSE LET row == Append(currentRow, Button(options[i], options[i]))
         IN  IF i % width = 0
             THEN KeyboardRowsFullOnly(options, width, i + 1, <<>>, Append(rows, row))
             ELSE KeyboardRowsFullOnly(options, width, i + 1, row, rows)

RECURSIVE KeyboardRows(_, _, _, _, _)
\* main.go:233-241 / 256-264: the loop that groups the options into rows
KeyboardRows(options, width, i, currentRow, rows) ==
    IF i > Len(options) THEN rows
    ELSE LET row == Append(currentRow, Button(options[i], options[i]))
         IN  IF i % width = 0 \/ i = Len(options)
             THEN KeyboardRows(options, width, i + 1, <<>>, Append(rows, row))
             ELSE KeyboardRows(options, width, i + 1, row, rows)

\* main.go:229-249
askUTMSource(chatID) ==
    Request(chatID, "askUTMSource", <<>>, KeyboardRows(utmSourceOptions, 3, 1, <<>>, <<>>))

\* main.go:252-272
askUTMMedium(chatID) ==
    Request(chatID, "askUTMMedium", <<>>, KeyboardRows(utmMediumOptions, 2, 1, <<>>, <<>>))

\* main.go:276  the label of the skip button (U+23ED U+FE0F is the emoji)
SkipLabel ==
    <<"U+23ED", "U+FE0F">> \o Runes(" Atla (Bo") \o <<"U+015F">> \o Runes(" B")
    \o <<"U+0131">> \o Runes("rak)")

\* main.go:275-285
askUTMTerm(chatID) ==
    Request(chatID, "askUTMTerm", <<>>, <<<<Button(SkipLabel, Runes("skip_term"))>>>>)

\* isValidURL without the test of the scheme: whatever url.Parse accepts
isValidURLAnyScheme(text) == ~Parse(text).err

\* main.go:345-351
isValidURL(text) ==
    With(Parse(text), LAMBDA parsedURL :
        IF parsedURL.err THEN FALSE
        ELSE parsedURL.Scheme = Runes("http") \/ parsedURL.Scheme = Runes("https"))

\* a key is set only when the source URL does not carry it
ValuesSetIfAbsent(m, key, value) ==
    IF key \in DOMAIN m THEN m ELSE (key :> <<value>>) @@ m

\* finalURL that keeps the tag values the source URL already carries
finalURLKeepingExisting(parsedURL, session) ==
    With(Query(parsedURL), LAMBDA q0 :
    With(ValuesSetIfAbsent(q0, Runes("utm_source"), session.UTMSource), LAMBDA q1 :
    With(ValuesSetIfAbsent(q1, Runes("utm_medium"), session.UTMMedium), LAMBDA q2 :
    With(ValuesSetIfAbsent(q2, Runes("utm_campaign"), session.Campaign), LAMBDA q3 :
    With(ValuesSetIfAbsent(q3, Runes("utm_content"), session.Content), LAMBDA q4 :
    With(IF session.Term # <<>>
         THEN ValuesSetIfAbsent(q4, Runes("utm_term"), session.Term)
         ELSE q4, LAMBDA query :
    With(Encode(query), LAMBDA rawQuery :
        String([parsedURL EXCEPT !.RawQuery = rawQuery]))))))))

\* finalURL without the test of main.go:305: utm_term is set even when empty
finalURLAlwaysTerm(parsedURL, session) ==
    With(Query(parsedURL), LAMBDA q0 :
    With(ValuesSet(q0, Runes("utm_source"), session.UTMSource), LAMBDA q1 :
    With(ValuesSet(q1, Runes("utm_medium"), session.UTMMedium), LAMBDA q2 :
    With(ValuesSet(q2, Runes("utm_campaign"), session.Campaign), LAMBDA q3 :
    With(ValuesSet(q3, Runes("utm_content"), session.Content), LAMBDA q4 :
    With(ValuesSet(q4, Runes("utm_term"), session.Term), LAMBDA query :
    With(Encode(query), LAMBDA rawQuery :
        String([parsedURL EXCEPT !.RawQuery = rawQuery]))))))))

\* main.go:297-311: the link built from a parsed source URL and the session
finalURL(parsedURL, session) ==
    With(Query(parsedURL), LAMBDA q0 :
    With(ValuesSet(q0, Runes("utm_source"), session.UTMSource), LAMBDA q1 :
    With(ValuesSet(q1, Runes("utm_medium"), session.UTMMedium), LAMBDA q2 :
    With(ValuesSet(q2, Runes("utm_campaign"), session.Campaign), LAMBDA q3 :
    With(ValuesSet(q3, Runes("utm_content"), session.Content), LAMBDA q4 :
    With(IF session.Term # <<>> THEN ValuesSet(q4, Runes("utm_term"), session.Term)
         ELSE q4, LAMBDA query :
    With(Encode(query), LAMBDA rawQuery :
        String([parsedURL EXCEPT !.RawQuery = rawQuery]))))))))

\* What a handler leaves behind: the map and the requests it made
Outcome(store, requests) == [sessions |-> store, sent |-> requests]

\* sendFinalURL that clears the session on the error path as well
sendFinalURLAlwaysDeleting(chatID, userID, store) ==
    With(store[userID], LAMBDA session :
    With(Parse(session.SourceURL), LAMBDA parsedURL :
        IF parsedURL.err
        THEN Outcome(MapDelete(store, userID), <<Msg(chatID, "urlError")>>)
        ELSE Outcome(MapDelete(store, userID),
                     <<Request(chatID, "finalURL",
                               <<session.SourceURL, session.UTMSource, session.UTMMedium,
                                 session.Campaign, session.Content, session.Term,
                                 finalURL(parsedURL, session)>>,
                               <<>>)>>)))

\* sendFinalURL without the delete of main.go:339-341
sendFinalURLKeepingSession(chatID, userID, store) ==
    With(store[userID], LAMBDA session :
    With(Parse(session.SourceURL), LAMBDA parsedURL :
        IF parsedURL.err
        THEN Outcome(store, <<Msg(chatID, "urlError")>>)
        ELSE Outcome(store,
                     <<Request(chatID, "finalURL",
                               <<session.SourceURL, session.UTMSource, session.UTMMedium,
                                 session.Campaign, session.Content, session.Term,
                                 finalURL(parsedURL, session)>>,
                               <<>>)>>)))

\* sendFinalURL that builds the link from the session of the user with the
\* greatest id in the map, as if one session were shared
sendFinalURLAnySession(chatID, userID, store) ==
    With(store[CHOOSE u \in DOMAIN store : \A v \in DOMAIN store : v <= u], LAMBDA session :
    With(Parse(session.SourceURL), LAMBDA parsedURL :
        IF parsedURL.err
        THEN Outcome(store, <<Msg(chatID, "urlError")>>)
        ELSE Outcome(MapDelete(store, userID),
                     <<Request(chatID, "finalURL",
                               <<session.SourceURL, session.UTMSource, session.UTMMedium,
                                 session.Campaign, session.Content, session.Term,
                                 finalURL(parsedURL, session)>>,
                               <<>>)>>)))

\* main.go:288-342; store[userID] is the session the handler holds
sendFinalURL(chatID, userID, store) ==
    With(store[userID], LAMBDA session :
    With(Parse(session.SourceURL), LAMBDA parsedURL :
        IF parsedURL.err
        THEN Outcome(store, <<Msg(chatID, "urlError")>>)
        ELSE Outcome(MapDelete(store, userID),
                     <<Request(chatID, "finalURL",
                               <<session.SourceURL, session.UTMSource, session.UTMMedium,
                                 session.Campaign, session.Content, session.Term,
                                 finalURL(parsedURL, session)>>,
                               <<>>)>>)))

\* startBuildProcess that rewinds a session the user already has instead of
\* replacing it
startBuildKeepingSession(chatID, userID, store) ==
    IF userID \in DOMAIN store
    THEN Outcome([store EXCEPT ![userID].Step = 1], <<Msg(chatID, "askSourceURL")>>)
    ELSE Outcome(MapPut(store, userID, NewSession), <<Msg(chatID, "askSourceURL")>>)

\* startBuildProcess that stores &UserSession{} without Step: 1, leaving the
\* zero value of the int
startBuildAtStepZero(chatID, userID, store) ==
    Outcome(MapPut(store, userID, [NewSession EXCEPT !.Step = 0]),
            <<Msg(chatID, "askSourceURL")>>)

\* main.go:133-142
startBuildProcess(chatID, userID, store) ==
    Outcome(MapPut(store, userID, NewSession), <<Msg(chatID, "askSourceURL")>>)

\* cancelSession that confirms only when there was a session to delete
cancelExistingSession(chatID, userID, store) ==
    IF userID \in DOMAIN store
    THEN Outcome(MapDelete(store, userID), <<Msg(chatID, "cancelled")>>)
    ELSE Outcome(store, <<Msg(chatID, "sessionNotFound")>>)

\* main.go:145-152
cancelSession(chatID, userID, store) ==
    Outcome(MapDelete(store, userID), <<Msg(chatID, "cancelled")>>)

\* main.go:108-130
sendWelcomeMessage(chatID, store) == Outcome(store, <<Msg(chatID, "welcome")>>)

\* handleUserInput that compares the text of step 6 with the skip keyword
\* without strings.ToLower
handleUserInputExactSkip(chatID, userID, text, store) ==
    LET session == store[userID]
    IN  CASE session.Step = 1 ->
               IF ~isValidURL(text)
               THEN Outcome(store, <<Msg(chatID, "invalidURL")>>)
               ELSE Outcome([store EXCEPT ![userID].SourceURL = text, ![userID].Step = 2],
                            <<askUTMSource(chatID)>>)
          [] session.Step = 4 ->
               Outcome([store EXCEPT ![userID].Campaign = sanitizeUTMValue(text),
                                     ![userID].Step = 5],
                       <<Msg(chatID, "askContent")>>)
          [] session.Step = 5 ->
               Outcome([store EXCEPT ![userID].Content = sanitizeUTMValue(text),
                                     ![userID].Step = 6],
                       <<askUTMTerm(chatID)>>)
          [] session.Step = 6 ->
               IF text # <<>> /\ text # Runes("atla")
               THEN With([store EXCEPT ![userID].Term = sanitizeUTMValue(text)],
                         LAMBDA stored : sendFinalURL(chatID, userID, stored))
               ELSE sendFinalURL(chatID, userID, store)
          [] OTHER -> Outcome(store, <<>>)

\* handleUserInput whose case 5 assigns session.Campaign, as case 4 does,
\* where the code assigns session.Content
handleUserInputCampaignTwice(chatID, userID, text, store) ==
    LET session == store[userID]
    IN  CASE session.Step = 1 ->
               IF ~isValidURL(text)
               THEN Outcome(store, <<Msg(chatID, "invalidURL")>>)
               ELSE Outcome([store EXCEPT ![userID].SourceURL = text, ![userID].Step = 2],
                            <<askUTMSource(chatID)>>)
          [] session.Step = 4 ->
               Outcome([store EXCEPT ![userID].Campaign = sanitizeUTMValue(text),
                                     ![userID].Step = 5],
                       <<Msg(chatID, "askContent")>>)
          [] session.Step = 5 ->
               Outcome([store EXCEPT ![userID].Campaign = sanitizeUTMValue(text),
                                     ![userID].Step = 6],
                       <<askUTMTerm(chatID)>>)
          [] session.Step = 6 ->
               IF text # <<>> /\ ToLower(text) # Runes("atla")
               THEN With([store EXCEPT ![userID].Term = sanitizeUTMValue(text)],
                         LAMBDA stored : sendFinalURL(chatID, userID, stored))
               ELSE sendFinalURL(chatID, userID, store)
          [] OTHER -> Outcome(store, <<>>)

\* handleUserInput whose case 5 stores the content and asks for the term
\* without session.Step = 6
handleUserInputContentNoStep(chatID, userID, text, store) ==
    LET session == store[userID]
    IN  CASE session.Step = 1 ->
               IF ~isValidURL(text)
               THEN Outcome(store, <<Msg(chatID, "invalidURL")>>)
               ELSE Outcome([store EXCEPT ![userID].SourceURL = text, ![userID].Step = 2],
                            <<askUTMSource(chatID)>>)
          [] session.Step = 4 ->
               Outcome([store EXCEPT ![userID].Campaign = sanitizeUTMValue(text),
                                     ![userID].Step = 5],
                       <<Msg(chatID, "askContent")>>)
          [] session.Step = 5 ->
               Outcome([store EXCEPT ![userID].Content = sanitizeUTMValue(text)],
                       <<askUTMTerm(chatID)>>)
          [] session.Step = 6 ->
               IF text # <<>> /\ ToLower(text) # Runes("atla")
               THEN With([store EXCEPT ![userID].Term = sanitizeUTMValue(text)],
                         LAMBDA stored : sendFinalURL(chatID, userID, stored))
               ELSE sendFinalURL(chatID, userID, store)
          [] OTHER -> Outcome(store, <<>>)

\* handleUserInput with a case 2 that takes a typed text as the source
handleUserInputTypedSource(chatID, userID, text, store) ==
    LET session == store[userID]
    IN  CASE session.Step = 1 ->
               IF ~isValidURL(text)
               THEN Outcome(store, <<Msg(chatID, "invalidURL")>>)
               ELSE Outcome([store EXCEPT ![userID].SourceURL = text, ![userID].Step = 2],
                            <<askUTMSource(chatID)>>)
          [] session.Step = 2 ->
               Outcome([store EXCEPT ![userID].UTMSource = sanitizeUTMValue(text),
                                     ![userID].Step = 3],
                       <<askUTMMedium(chatID)>>)
          [] session.Step = 4 ->
               Outcome([store EXCEPT ![userID].Campaign = sanitizeUTMValue(text),
                                     ![userID].Step = 5],
                       <<Msg(chatID, "askContent")>>)
          [] session.Step = 5 ->
               Outcome([store EXCEPT ![userID].Content = sanitizeUTMValue(text),
                                     ![userID].Step = 6],
                       <<askUTMTerm(chatID)>>)
          [] session.Step = 6 ->
               IF text # <<>> /\ ToLower(text) # Runes("atla")
               THEN With([store EXCEPT ![userID].Term = sanitizeUTMValue(text)],
                         LAMBDA stored : sendFinalURL(chatID, userID, stored))
               ELSE sendFinalURL(chatID, userID, store)
          [] OTHER -> Outcome(store, <<>>)

\* handleUserInput whose case 1 stores the text without isValidURL
handleUserInputUnvalidated(chatID, userID, text, store) ==
    LET session == store[userID]
    IN  CASE session.Step = 1 ->
               Outcome([store EXCEPT ![userID].SourceURL = text, ![userID].Step = 2],
                       <<askUTMSource(chatID)>>)
          [] session.Step = 4 ->
               Outcome([store EXCEPT ![userID].Campaign = sanitizeUTMValue(text),
                                     ![userID].Step = 5],
                       <<Msg(chatID, "askContent")>>)
          [] session.Step = 5 ->
               Outcome([store EXCEPT ![userID].Content = sanitizeUTMValue(text),
                                     ![userID].Step = 6],
                       <<askUTMTerm(chatID)>>)
          [] session.Step = 6 ->
               IF text # <<>> /\ ToLower(text) # Runes("atla")
               THEN With([store EXCEPT ![userID].Term = sanitizeUTMValue(text)],
                         LAMBDA stored : sendFinalURL(chatID, userID, stored))
               ELSE sendFinalURL(chatID, userID, store)
          [] OTHER -> Outcome(store, <<>>)

\* main.go:155-187; the session is the one stored under userID
handleUserInput(chatID, userID, text, store) ==
    LET session == store[userID]
    IN  CASE session.Step = 1 ->
               IF ~isValidURL(text)
               THEN Outcome(store, <<Msg(chatID, "invalidURL")>>)
               ELSE Outcome([store EXCEPT ![userID].SourceURL = text, ![userID].Step = 2],
                            <<askUTMSource(chatID)>>)
          [] session.Step = 4 ->
               Outcome([store EXCEPT ![userID].Campaign = sanitizeUTMValue(text),
                                     ![userID].Step = 5],
                       <<Msg(chatID, "askContent")>>)
          [] session.Step = 5 ->
               Outcome([store EXCEPT ![userID].Content = sanitizeUTMValue(text),
                                     ![userID].Step = 6],
                       <<askUTMTerm(chatID)>>)
          [] session.Step = 6 ->
               IF text # <<>> /\ ToLower(text) # Runes("atla")
               THEN With([store EXCEPT ![userID].Term = sanitizeUTMValue(text)],
                         LAMBDA stored : sendFinalURL(chatID, userID, stored))
               ELSE sendFinalURL(chatID, userID, store)
          [] OTHER -> Outcome(store, <<>>)

\* Message.IsCommand / Message.Command of the Bot API library (main.go:80-81):
\* a command is a text that starts with "/" and a name of letters, digits, "_"
IsNameRune(r) == IsLetter(r) \/ IsDigit(r) \/ r = "_"
IsCommand(text) == Len(text) >= 2 /\ text[1] = "/" /\ IsNameRune(text[2])
Command(text) ==
    LET ends == {i \in 2..Len(text) : ~IsNameRune(text[i])}
    IN  IF ends = {} THEN From(text, 2)
        ELSE SubSeq(text, 2, (CHOOSE i \in ends : \A j \in ends : i <= j) - 1)

\* the command switch with a /start that also drops the sender's session
handleCommandStartResets(chatID, userID, text, store) ==
    CASE Command(text) = Runes("start")  ->
             Outcome(MapDelete(store, userID), <<Msg(chatID, "welcome")>>)
      [] Command(text) = Runes("build")  -> startBuildProcess(chatID, userID, store)
      [] Command(text) = Runes("cancel") -> cancelSession(chatID, userID, store)
      [] OTHER -> Outcome(store, <<Msg(chatID, "unknownCommand")>>)

\* main.go:79-93: the command switch
handleCommand(chatID, userID, text, store) ==
    CASE Command(text) = Runes("start")  -> sendWelcomeMessage(chatID, store)
      [] Command(text) = Runes("build")  -> startBuildProcess(chatID, userID, store)
      [] Command(text) = Runes("cancel") -> cancelSession(chatID, userID, store)
      [] OTHER -> Outcome(store, <<Msg(chatID, "unknownCommand")>>)

\* handleMessage that starts a session for a user who writes without one
handleMessageAutoStart(chatID, userID, text, store) ==
    IF IsCommand(text) THEN handleCommand(chatID, userID, text, store)
    ELSE IF userID \in DOMAIN store THEN handleUserInput(chatID, userID, text, store)
    ELSE startBuildProcess(chatID, userID, store)

\* handleMessage that looks for the session before it looks for a command
handleMessageSessionFirst(chatID, userID, text, store) ==
    IF userID \in DOMAIN store THEN handleUserInput(chatID, userID, text, store)
    ELSE IF IsCommand(text) THEN handleCommand(chatID, userID, text, store)
    ELSE Outcome(store, <<Msg(chatID, "useBuild")>>)

\* main.go:75-106
handleMessageResult(chatID, userID, text, store) ==
    IF IsCommand(text) THEN handleCommand(chatID, userID, text, store)
    ELSE IF userID \in DOMAIN store THEN handleUserInput(chatID, userID, text, store)
    ELSE Outcome(store, <<Msg(chatID, "useBuild")>>)

\* handleCallback that lets a button of the medium keyboard pressed after
\* step 3 choose the medium again
handleCallbackRewinding(chatID, userID, data, store) ==
    LET answer == Msg(chatID, "answerCallback")
    IN  IF userID \notin DOMAIN store
        THEN Outcome(store, <<answer, Msg(chatID, "sessionNotFound")>>)
        ELSE LET session == store[userID]
             IN  CASE session.Step = 2 ->
                        Outcome([store EXCEPT ![userID].UTMSource = data, ![userID].Step = 3],
                                <<answer, askUTMMedium(chatID)>>)
                   [] session.Step >= 3 /\ data # Runes("skip_term") ->
                        Outcome([store EXCEPT ![userID].UTMMedium = data, ![userID].Step = 4],
                                <<answer, Msg(chatID, "askCampaign")>>)
                   [] session.Step = 6 /\ data = Runes("skip_term") ->
                        With(sendFinalURL(chatID, userID, store), LAMBDA r :
                            Outcome(r.sessions, <<answer>> \o r.sent))
                   [] OTHER -> Outcome(store, <<answer>>)

\* handleCallback whose case 2 sends the campaign prompt of case 3 where the
\* code asks for the medium
handleCallbackCampaignPrompt(chatID, userID, data, store) ==
    LET answer == Msg(chatID, "answerCallback")
    IN  IF userID \notin DOMAIN store
        THEN Outcome(store, <<answer, Msg(chatID, "sessionNotFound")>>)
        ELSE LET session == store[userID]
             IN  CASE session.Step = 2 ->
                        Outcome([store EXCEPT ![userID].UTMSource = data, ![userID].Step = 3],
                                <<answer, Msg(chatID, "askCampaign")>>)
                   [] session.Step = 3 ->
                        Outcome([store EXCEPT ![userID].UTMMedium = data, ![userID].Step = 4],
                                <<answer, Msg(chatID, "askCampaign")>>)
                   [] session.Step = 6 /\ data = Runes("skip_term") ->
                        With(sendFinalURL(chatID, userID, store), LAMBDA r :
                            Outcome(r.sessions, <<answer>> \o r.sent))
                   [] OTHER -> Outcome(store, <<answer>>)

\* handleCallback that honours the skip button before looking at the step
handleCallbackSkipAnywhere(chatID, userID, data, store) ==
    LET answer == Msg(chatID, "answerCallback")
    IN  IF userID \notin DOMAIN store
        THEN Outcome(store, <<answer, Msg(chatID, "sessionNotFound")>>)
        ELSE LET session == store[userID]
             IN  CASE data = Runes("skip_term") ->
                        With(sendFinalURL(chatID, userID, store), LAMBDA r :
                            Outcome(r.sessions, <<answer>> \o r.sent))
                   [] session.Step = 2 ->
                        Outcome([store EXCEPT ![userID].UTMSource = data, ![userID].Step = 3],
                                <<answer, askUTMMedium(chatID)>>)
                   [] session.Step = 3 ->
                        Outcome([store EXCEPT ![userID].UTMMedium = data, ![userID].Step = 4],
                                <<answer, Msg(chatID, "askCampaign")>>)
                   [] OTHER -> Outcome(store, <<answer>>)

\* main.go:190-226
handleCallbackResult(chatID, userID, data, store) ==
    LET answer == Msg(chatID, "answerCallback")
    IN  IF userID \notin DOMAIN store
        THEN Outcome(store, <<answer, Msg(chatID, "sessionNotFound")>>)
        ELSE LET session == store[userID]
             IN  CASE session.Step = 2 ->
                        Outcome([store EXCEPT ![userID].UTMSource = data, ![userID].Step = 3],
                                <<answer, askUTMMedium(chatID)>>)
                   [] session.Step = 3 ->
                        Outcome([store EXCEPT ![userID].UTMMedium = data, ![userID].Step = 4],
                                <<answer, Msg(chatID, "askCampaign")>>)
                   [] session.Step = 6 /\ data = Runes("skip_term") ->
                        With(sendFinalURL(chatID, userID, store), LAMBDA r :
                            Outcome(r.sessions, <<answer>> \o r.sent))
                   [] OTHER -> Outcome(store, <<answer>>)


-----------------------------------------------------------------------------
(* Updates and the loop of main: main.go:58-71 *)

\* message.Chat.ID: every user writes from their private chat, whose id is the
\* id of the user
ChatOf(userID) == userID

URLExample == Runes("https://a.io/p?r=1")
URLOtherScheme == Runes("ftp://a.io")
TextTurkish == Runes("K") \o <<"U+0131", "U+015F">> \o Runes(": Su")

\* message.Text of the messages users send: the commands, a URL the bot
\* accepts, a URL of another scheme, the empty text of a message that carries
\* no text (a photo, a sticker), the skip keyword in another case, and a text
\* with Turkish letters that url.Parse rejects.  User 1 draws from the larger
\* set; the other users, whose part is to interleave, from the smaller one.
Texts ==
    {Runes("/start"), Runes("/build"), Runes("/cancel"), Runes("/toplam"),
     URLExample, URLOtherScheme, <<>>, Runes("Atla"), TextTurkish}
BasicTexts == {Runes("/build"), Runes("/cancel"), URLExample}
TextsOf(userID) == IF userID = 1 THEN Texts ELSE BasicTexts

\* callback.Data of the buttons users press: an option of both keyboards, an
\* option of the source keyboard only, the skip button
Payloads == {Runes("sms"), Runes("meta"), Runes("skip_term")}
BasicPayloads == {Runes("sms")}
PayloadsOf(userID) == IF userID = 1 THEN Payloads ELSE BasicPayloads

NoUpdate == [kind |-> "none", user |-> 0, text |-> <<>>]
MessageUpdate(userID, text) == [kind |-> "message", user |-> userID, text |-> text]
CallbackUpdate(userID, data) == [kind |-> "callback", user |-> userID, text |-> data]

\* main.go:60  the loop is blocked on the channel of updates
Waiting == update = NoUpdate

\* main.go:68-70  update.Message != nil
handleMessage(userID, text) ==
    \E r \in {handleMessageResult(ChatOf(userID), userID, text, sessions)} :
        /\ sessions' = r.sessions
        /\ sent' = r.sent
        /\ update' = MessageUpdate(userID, text)
        /\ before' = sessions

\* main.go:62-65  update.CallbackQuery != nil
handleCallback(userID, data) ==
    \E r \in {handleCallbackResult(ChatOf(userID), userID, data, sessions)} :
        /\ sessions' = r.sessions
        /\ sent' = r.sent
        /\ update' = CallbackUpdate(userID, data)
        /\ before' = sessions

OnMessage ==
    /\ Waiting
    /\ \E userID \in Users : \E text \in TextsOf(userID) : handleMessage(userID, text)
    /\ UNCHANGED <<scriptPos, input, output, stage, sendErrors>>
    /\ UNCHANGED feed

OnCallback ==
    /\ Waiting
    /\ \E userID \in Users : \E data \in PayloadsOf(userID) : handleCallback(userID, data)
    /\ UNCHANGED <<scriptPos, input, output, stage, sendErrors>>
    /\ UNCHANGED feed

\* main.go:60, 64, 71  the handler has returned: back to the head of the loop
NextUpdate ==
    /\ ~Waiting
    /\ update' = NoUpdate
    /\ before' = sessions
    /\ sent' = <<>>
    /\ sendErrors' = {}
    /\ UNCHANGED <<sessions, scriptPos, input, output, stage>>
    /\ UNCHANGED feed

Init ==
    /\ sessions = NoSessions
    /\ update = NoUpdate
    /\ before = NoSessions
    /\ sent = <<>>
    /\ scriptPos = 0
    /\ sendErrors = {}
    /\ NoFeed
    /\ input = <<>>
    /\ output = <<>>
    /\ stage = 0

Next == OnMessage \/ OnCallback \/ NextUpdate

Spec == Init /\ [][Next]_vars

-----------------------------------------------------------------------------
(* The example conversation of README.md:44-61, sent by user 1 while the    *)
(* other users send what they like.                                         *)

ScriptUser == 1

Script ==
    <<MessageUpdate(ScriptUser, Runes("/build")),
      MessageUpdate(ScriptUser, Runes("https://hayratyardim.org/bagis/genel-su-kuyusu/")),
      CallbackUpdate(ScriptUser, Runes("meta")),
      CallbackUpdate(ScriptUser, Runes("organic_social")),
      MessageUpdate(ScriptUser, Runes("Su Kuyusu Genel")),
      MessageUpdate(ScriptUser, Runes("Test Genel Su Kuyusu")),
      CallbackUpdate(ScriptUser, Runes("skip_term"))>>

ScriptStep ==
    /\ Waiting
    /\ scriptPos < Len(Script)
    /\ LET next == Script[scriptPos + 1]
       IN  IF next.kind = "callback"
           THEN handleCallback(next.user, next.text)
           ELSE handleMessage(next.user, next.text)
    /\ scriptPos' = scriptPos + 1
    /\ UNCHANGED <<input, output, stage, sendErrors>>
    /\ UNCHANGED feed

OthersMessage ==
    /\ Waiting
    /\ \E userID \in Users \ {ScriptUser} : \E text \in TextsOf(userID) :
           handleMessage(userID, text)
    /\ UNCHANGED <<scriptPos, input, output, stage, sendErrors>>
    /\ UNCHANGED feed

OthersCallback ==
    /\ Waiting
    /\ \E userID \in Users \ {ScriptUser} : \E data \in PayloadsOf(userID) :
           handleCallback(userID, data)
    /\ UNCHANGED <<scriptPos, input, output, stage, sendErrors>>
    /\ UNCHANGED feed

NextScenario == ScriptStep \/ OthersMessage \/ OthersCallback \/ NextUpdate

SpecScenario == Init /\ [][NextScenario]_vars

-----------------------------------------------------------------------------
(* A second conversation of user 1: a source URL without query, google,     *)
(* cpc, two names with spaces and capitals, no term.                        *)

ExampleScript ==
    <<MessageUpdate(ScriptUser, Runes("/build")),
      MessageUpdate(ScriptUser, Runes("https://example.org/landing")),
      CallbackUpdate(ScriptUser, Runes("google")),
      CallbackUpdate(ScriptUser, Runes("cpc")),
      MessageUpdate(ScriptUser, Runes("Su Kuyusu Genel")),
      MessageUpdate(ScriptUser, Runes("Kreatif Ismi")),
      CallbackUpdate(ScriptUser, Runes("skip_term"))>>

ExampleStep ==
    /\ Waiting
    /\ scriptPos < Len(ExampleScript)
    /\ LET next == ExampleScript[scriptPos + 1]
       IN  IF next.kind = "callback"
           THEN handleCallback(next.user, next.text)
           ELSE handleMessage(next.user, next.text)
    /\ scriptPos' = scriptPos + 1
    /\ UNCHANGED <<input, output, stage, sendErrors>>
    /\ UNCHANGED feed

NextExample == ExampleStep \/ OthersMessage \/ OthersCallback \/ NextUpdate

SpecExample == Init /\ [][NextExample]_vars

-----------------------------------------------------------------------------
(* Delivery.  bot.Send and bot.Request return an error when the Bot API     *)
(* cannot be reached or refuses the request; every call in main.go is a     *)
(* statement that drops what is returned.  Here any of the requests of a    *)
(* handler may fail.                                                        *)

\* bot.Send with a second attempt for every request that failed
AfterSendResending(result, failures) ==
    [result EXCEPT
        !.sent = @ \o SelectSeq(@, LAMBDA request :
                         \E i \in failures : result.sent[i] = request)]

\* main.go:90, 104, 129, 141, 151, 161, 173, 196, 204, 219, 248, 271, 284,
\* 293, 336: what the handler leaves when the requests numbered in
\* failures returned an error
AfterSend(result, failures) == result

\* the texts and buttons of a whole conversation
DeliveryTexts == {Runes("/build"), Runes("/cancel"), URLExample}
DeliveryPayloads == {Runes("sms"), Runes("skip_term")}

DeliverMessage ==
    /\ Waiting
    /\ \E userID \in Users : \E text \in DeliveryTexts :
       \E r \in {handleMessageResult(ChatOf(userID), userID, text, sessions)} :
       \E failures \in SUBSET (1..Len(r.sent)) :
       \E left \in {AfterSend(r, failures)} :
           /\ sessions' = left.sessions
           /\ sent' = left.sent
           /\ sendErrors' = failures
           /\ update' = MessageUpdate(userID, text)
           /\ before' = sessions
    /\ UNCHANGED <<scriptPos, input, output, stage>>
    /\ UNCHANGED feed

DeliverCallback ==
    /\ Waiting
    /\ \E userID \in Users : \E data \in DeliveryPayloads :
       \E r \in {handleCallbackResult(ChatOf(userID), userID, data, sessions)} :
       \E failures \in SUBSET (1..Len(r.sent)) :
       \E left \in {AfterSend(r, failures)} :
           /\ sessions' = left.sessions
           /\ sent' = left.sent
           /\ sendErrors' = failures
           /\ update' = CallbackUpdate(userID, data)
           /\ before' = sessions
    /\ UNCHANGED <<scriptPos, input, output, stage>>
    /\ UNCHANGED feed

NextDelivery == DeliverMessage \/ DeliverCallback \/ NextUpdate

SpecDelivery == Init /\ [][NextDelivery]_vars

-----------------------------------------------------------------------------
(* The grouping of options into keyboard rows on its own (main.go:230-241,  *)
(* 253-264): every option list of up to MaxOptions options over two labels, *)
(* and the two configured lists, in rows of 2 and of 3.                     *)

MaxOptions == 6

KeyboardLabels == {Runes("sms"), Runes("x")}

KeyboardInputs ==
    [options : UNION {[1..n -> KeyboardLabels] : n \in 0..MaxOptions}
               \cup {utmSourceOptions, utmMediumOptions},
     width : {2, 3}]

InitKeyboard ==
    /\ input \in KeyboardInputs
    /\ output = <<>>
    /\ stage = 0
    /\ sessions = NoSessions
    /\ update = NoUpdate
    /\ before = NoSessions
    /\ sent = <<>>
    /\ scriptPos = 0
    /\ sendErrors = {}
    /\ NoFeed

\* the rows askUTMSource (width 3) and askUTMMedium (width 2) build
ApplyKeyboard ==
    /\ stage = 0
    /\ output' = <<KeyboardRows(input.options, input.width, 1, <<>>, <<>>)>>
    /\ stage' = 1
    /\ UNCHANGED <<input, sessions, update, before, sent, scriptPos, sendErrors>>
    /\ UNCHANGED feed

NextKeyboard == ApplyKeyboard

SpecKeyboard == InitKeyboard /\ [][NextKeyboard]_vars

-----------------------------------------------------------------------------
(* The loop of main with its channel (main.go:58-71) and, beside it, the    *)
(* HTTP endpoint that the main of src/README.md:472-496 starts in a         *)
(* goroutine of its own (go startFiberServer()).                            *)

MaxUpdates == 4
MaxOrders == 1

\* the updates the library puts on the channel
LoopUpdates ==
    {MessageUpdate(userID, Runes("/build")) : userID \in Users}
    \cup {MessageUpdate(1, URLExample), CallbackUpdate(1, Runes("sms"))}

\* a receive that takes the update put on the channel last
ReceiveNewest(ch) == [next |-> ch[Len(ch)], rest |-> SubSeq(ch, 1, Len(ch) - 1)]

\* main.go:60  for update := range updates: the oldest update of the channel
Receive(ch) == [next |-> Head(ch), rest |-> Tail(ch)]

\* main.go:58  bot.GetUpdatesChan(u): the goroutine of the library sends the
\* updates it fetched on the channel, in the order of their update ids
Deliver ==
    /\ delivered < MaxUpdates
    /\ \E u \in LoopUpdates :
           channel' = Append(channel, [id |-> delivered + 1, update |-> u])
    /\ delivered' = delivered + 1
    /\ UNCHANGED <<sessions, update, before, sent, scriptPos, input, output, stage,
                   sendErrors, taken, notified, orders, notices, response>>

\* main.go:60-70  the loop takes an update and calls its handler
Take ==
    /\ Waiting
    /\ channel # <<>>
    /\ \E r \in {Receive(channel)} :
           /\ IF r.next.update.kind = "callback"
              THEN handleCallback(r.next.update.user, r.next.update.text)
              ELSE handleMessage(r.next.update.user, r.next.update.text)
           /\ channel' = r.rest
           /\ taken' = r.next.id
    /\ UNCHANGED <<scriptPos, input, output, stage, sendErrors, delivered, notified,
                   orders, notices, response>>

\* README.md:310-367  handleThrowData: the order is stored in the database
\* and announced to the notification chats; sessions is not used
Ingest ==
    /\ notified < MaxOrders
    /\ notified' = notified + 1
    /\ UNCHANGED <<sessions, update, before, sent, scriptPos, input, output, stage,
                   sendErrors, channel, delivered, taken, orders, notices, response>>

NextLoop == Deliver \/ Take \/ NextUpdate \/ Ingest

SpecLoop == Init /\ [][NextLoop]_vars

-----------------------------------------------------------------------------
(* The sanitizer on its own: every text up to MaxLen runes over the letters *)
(* of both cases, the space and the twelve letters of the table.            *)

MaxLen == 2

SanitizeAlphabet == {" "} \cup Letters \cup DOMAIN replacements

SanitizeInputs == UNION {[1..n -> SanitizeAlphabet] : n \in 0..MaxLen}

\* a campaign name longer than MaxLen: the example of the prompt at
\* main.go:217, as a user types it
SanitizeExamples == {Runes("Su Kuyusu Genel")}

InitSanitize ==
    /\ input \in SanitizeInputs \cup SanitizeExamples
    /\ output = <<>>
    /\ stage = 0
    /\ sessions = NoSessions
    /\ update = NoUpdate
    /\ before = NoSessions
    /\ sent = <<>>
    /\ scriptPos = 0
    /\ sendErrors = {}
    /\ NoFeed

\* sanitizeUTMValue applied to the input, then to its own result
ApplySanitize ==
    /\ stage < 2
    /\ output' = Append(output, sanitizeUTMValue(IF stage = 0 THEN input ELSE output[stage]))
    /\ stage' = stage + 1
    /\ UNCHANGED <<input, sessions, update, before, sent, scriptPos, sendErrors>>
    /\ UNCHANGED feed

NextSanitize == ApplySanitize

SpecSanitize == InitSanitize /\ [][NextSanitize]_vars

-----------------------------------------------------------------------------
(* The assembly of the link on its own (main.go:288-311): a source URL made *)
(* of a head, up to MaxParams query parameters and a fragment, and the      *)
(* fields of a session that has reached step 6.                             *)

MaxParams == 2

\* scheme, host and path of the source URLs
AssembleHeads == {Runes("https://example.org/p"), Runes("http://a.io")}

\* the query parameters a source URL is made of: plain ones, a key given
\* twice, tag keys (utm_source with two values, utm_term, utm_term with a
\* semicolon in the value), a key without value, a value that holds a
\* semicolon
AssemblePieces ==
    {Runes("ref=abc"), Runes("a=1"), Runes("a=2"), Runes("utm_source=old"),
     Runes("utm_source=x"), Runes("utm_term=old"), Runes("utm_term=x;y"),
     Runes("b"), Runes("c=x;y")}

AssembleFragments == {<<>>, Runes("top")}

\* the fields a session holds when the link is built
AssembleFields ==
    {[NewSession EXCEPT !.Step = 6, !.UTMSource = Runes("google"),
                        !.UTMMedium = Runes("cpc"),
                        !.Campaign = Runes("su_kuyusu_genel"),
                        !.Content = Runes("kreatif_ismi")],
     [NewSession EXCEPT !.Step = 6, !.UTMSource = Runes("sms"),
                        !.UTMMedium = Runes("sms"),
                        !.Campaign = Runes("kis:_su"),
                        !.Content = <<>>,
                        !.Term = Runes("a+b")]}

RECURSIVE Join(_, _)
\* the pieces from the i-th on, with '&' between them
Join(pieces, i) ==
    IF i > Len(pieces) THEN <<>>
    ELSE pieces[i] \o (IF i < Len(pieces) THEN <<"&">> ELSE <<>>) \o Join(pieces, i + 1)

\* the text of a source URL
SourceText(head, pieces, fragment) ==
    head
    \o (IF pieces # <<>> THEN <<"?">> \o Join(pieces, 1) ELSE <<>>)
    \o (IF fragment # <<>> THEN <<"#">> \o fragment ELSE <<>>)

Reversed(seq) == [i \in 1..Len(seq) |-> seq[Len(seq) + 1 - i]]

AssembleInputs ==
    [head : AssembleHeads,
     pieces : UNION {[1..n -> AssemblePieces] : n \in 0..MaxParams},
     fragment : AssembleFragments,
     fields : AssembleFields]

\* the session of an input, and the one whose source URL lists the same
\* parameters in the opposite order
SessionOf(in) ==
    [in.fields EXCEPT !.SourceURL = SourceText(in.head, in.pieces, in.fragment)]
ReorderedSessionOf(in) ==
    [in.fields EXCEPT !.SourceURL = SourceText(in.head, Reversed(in.pieces), in.fragment)]

\* main.go:290-311: the link sendFinalURL builds for a session
assemble(session) == finalURL(Parse(session.SourceURL), session)

InitAssemble ==
    /\ input \in AssembleInputs
    /\ isValidURL(SessionOf(input).SourceURL)
    /\ output = <<>>
    /\ stage = 0
    /\ sessions = NoSessions
    /\ update = NoUpdate
    /\ before = NoSessions
    /\ sent = <<>>
    /\ scriptPos = 0
    /\ sendErrors = {}
    /\ NoFeed

\* the link of the session
Assemble ==
    /\ stage = 0
    /\ output' = <<assemble(SessionOf(input))>>
    /\ stage' = 1
    /\ UNCHANGED <<input, sessions, update, before, sent, scriptPos, sendErrors>>
    /\ UNCHANGED feed

\* the link of a session with the same fields whose source URL is the link
Reassemble ==
    /\ stage = 1
    /\ output' = Append(output, assemble([input.fields EXCEPT !.SourceURL = output[1]]))
    /\ stage' = 2
    /\ UNCHANGED <<input, sessions, update, before, sent, scriptPos, sendErrors>>
    /\ UNCHANGED feed

\* the link of the session whose source URL has the parameters reversed
AssembleReordered ==
    /\ stage = 2
    /\ output' = Append(output, assemble(ReorderedSessionOf(input)))
    /\ stage' = 3
    /\ UNCHANGED <<input, sessions, update, before, sent, scriptPos, sendErrors>>
    /\ UNCHANGED feed

NextAssemble == Assemble \/ Reassemble \/ AssembleReordered

SpecAssemble == InitAssemble /\ [][NextAssemble]_vars

-----------------------------------------------------------------------------
(* Step 6 on its own: sendFinalURL and its two callers (main.go:180-186,    *)
(* 221-225, 288-342) on sessions at step 6 with any stored source URL, the  *)
(* ones url.Parse rejects included.  The handlers do not produce those:     *)
(* step 1 stores only a text url.Parse accepts, and nothing changes it.     *)

\* stored source URLs: two that parse, and texts url.Parse rejects (a colon
\* in the first path segment, a missing scheme, a space in the host, a
\* control character)
FinalizeURLs ==
    {URLExample, Runes("https://example.org/landing"), TextTurkish, Runes(":"),
     Runes("http://a b.io"), Runes("http://a.io/") \o <<"\n">>}

\* the texts sent at step 6
FinalizeTexts == {<<>>, Runes("Atla"), Runes("Reklam Seti"), URLExample}

\* a map with the session of user 1 at step 6 and, or not, a session of
\* user 2 at step 1
FinalizeStores ==
    {MapPut(others, 1, [fields EXCEPT !.SourceURL = sourceURL, !.Term = <<>>]) :
        others \in {NoSessions, MapPut(NoSessions, 2, NewSession)},
        fields \in AssembleFields,
        sourceURL \in FinalizeURLs}

InitFinalize ==
    /\ sessions \in FinalizeStores
    /\ before = sessions
    /\ update = NoUpdate
    /\ sent = <<>>
    /\ scriptPos = 0
    /\ input = <<>>
    /\ output = <<>>
    /\ stage = 0
    /\ sendErrors = {}
    /\ NoFeed

\* main.go:180-186  a text at step 6
FinalizeByText ==
    /\ Waiting
    /\ 1 \in DOMAIN sessions
    /\ sessions[1].Step = 6
    /\ \E text \in FinalizeTexts : handleMessage(1, text)
    /\ UNCHANGED <<scriptPos, input, output, stage, sendErrors>>
    /\ UNCHANGED feed

\* main.go:221-225  the skip button at step 6
FinalizeBySkip ==
    /\ Waiting
    /\ 1 \in DOMAIN sessions
    /\ sessions[1].Step = 6
    /\ handleCallback(1, Runes("skip_term"))
    /\ UNCHANGED <<scriptPos, input, output, stage, sendErrors>>
    /\ UNCHANGED feed

NextFinalize == FinalizeByText \/ FinalizeBySkip \/ NextUpdate

SpecFinalize == InitFinalize /\ [][NextFinalize]_vars

-----------------------------------------------------------------------------
(* A user who answers every prompt: user 1 sends /build when they have no   *)
(* session and, when they have one, an input of the kind its step accepts;  *)
(* the other users send what they like.  scriptPos counts the inputs user 1 *)
(* has supplied since their /build.                                         *)

\* inputs of the kind a step accepts: a URL the bot accepts at step 1, a
\* button at steps 2 and 3, a text at steps 4 and 5, a text or the skip
\* button at step 6
AcceptedInputs(step) ==
    CASE step = 1 ->
             {MessageUpdate(ScriptUser, text) :
                 text \in {URLExample, Runes("https://example.org/landing")}}
      [] step \in {2, 3} -> {CallbackUpdate(ScriptUser, data) : data \in Payloads}
      [] step \in {4, 5} ->
             {MessageUpdate(ScriptUser, text) : text \in {Runes("Su Kuyusu Genel"), TextTurkish}}
      [] step = 6 ->
             {MessageUpdate(ScriptUser, Runes("Atla")),
              MessageUpdate(ScriptUser, Runes("Reklam Seti")),
              CallbackUpdate(ScriptUser, Runes("skip_term"))}

Begin ==
    /\ Waiting
    /\ ScriptUser \notin DOMAIN sessions
    /\ handleMessage(ScriptUser, Runes("/build"))
    /\ scriptPos' = 0
    /\ UNCHANGED <<input, output, stage, sendErrors>>
    /\ UNCHANGED feed

Supply ==
    /\ Waiting
    /\ ScriptUser \in DOMAIN sessions
    /\ \E next \in AcceptedInputs(sessions[ScriptUser].Step) :
           IF next.kind = "callback"
           THEN handleCallback(next.user, next.text)
           ELSE handleMessage(next.user, next.text)
    /\ scriptPos' = scriptPos + 1
    /\ UNCHANGED <<input, output, stage, sendErrors>>
    /\ UNCHANGED feed

NextProgress == Begin \/ Supply \/ OthersMessage \/ OthersCallback \/ NextUpdate

\* Supply is enabled exactly in the states of SupplyEnabled, and every
\* Supply step changes update
SupplyEnabled == Waiting /\ ScriptUser \in DOMAIN sessions

\* the user keeps supplying input, however often the loop is busy with the
\* updates of others (strong fairness of Supply, written out), and a
\* handler returns (main.go:58-71 calls it synchronously)
SpecProgress ==
    /\ Init
    /\ [][NextProgress]_vars
    /\ ([]<>SupplyEnabled => []<><<Supply>>_vars)
    /\ WF_vars(NextUpdate)

-----------------------------------------------------------------------------
(* Two runs side by side.  In the first the updates of user 1 are handled   *)
(* among those of the other users; in the second the same updates of user 1 *)
(* are handled alone, on a map that is emptied when user 1 sends /build.    *)
(* input holds the map of the second run, brought up to date when the       *)
(* handler of the first returns.                                            *)

AloneTexts ==
    {Runes("/build"), Runes("/cancel"), URLExample, Runes("Atla"), TextTurkish}
AlonePayloads == {Runes("meta"), Runes("skip_term")}

\* what the handler of an update of user 1 leaves in the second run
AloneOutcome(next, store) ==
    IF next.kind = "callback"
    THEN handleCallbackResult(ChatOf(next.user), next.user, next.text, store)
    ELSE handleMessageResult(ChatOf(next.user), next.user, next.text,
                             IF IsCommand(next.text) /\ Command(next.text) = Runes("build")
                             THEN NoSessions ELSE store)

OwnMessage ==
    /\ Waiting
    /\ \E text \in AloneTexts : handleMessage(ScriptUser, text)
    /\ UNCHANGED <<scriptPos, input, output, stage, sendErrors>>
    /\ UNCHANGED feed

OwnCallback ==
    /\ Waiting
    /\ \E data \in AlonePayloads : handleCallback(ScriptUser, data)
    /\ UNCHANGED <<scriptPos, input, output, stage, sendErrors>>
    /\ UNCHANGED feed

\* the handler has returned; the second run handles the update too when it
\* was one of user 1
ReturnAlone ==
    /\ ~Waiting
    /\ update' = NoUpdate
    /\ before' = sessions
    /\ sent' = <<>>
    /\ sendErrors' = {}
    /\ input' = IF update.user = ScriptUser THEN AloneOutcome(update, input).sessions
                ELSE input
    /\ UNCHANGED <<sessions, scriptPos, output, stage>>
    /\ UNCHANGED feed

NextAlone == OwnMessage \/ OwnCallback \/ OthersMessage \/ OthersCallback \/ ReturnAlone

SpecAlone == Init /\ [][NextAlone]_vars

-----------------------------------------------------------------------------
(* The HTTP endpoint of the newer main (README.md:310-367): handleThrowData *)
(* parses the body, inserts the order and sends the notifications, one chat *)
(* after the other.  Requests are handled one after the other here.         *)

MaxOrderIDs == 2

\* the order_id of the requests
OrderIDs == 1..MaxOrderIDs

\* README.md:140-168  what getNotificationChatIDs returns
ChatLists == {<<>>, <<101>>, <<101, 102>>}

\* a request: whether c.BodyParser accepts the body, the order_id, whether
\* the database fails for a reason of its own, the notification chats
Requests == [parses : BOOLEAN, order : OrderIDs, dbError : BOOLEAN, chats : ChatLists]

\* README.md:175, 336-337  the insert fails on a database error and on an
\* order_id the table already has (unique)
InsertFails(req, rows) == req.dbError \/ \E i \in 1..Len(rows) : rows[i] = req.order

\* handleThrowData that logs the insert error and goes on
handleThrowDataStartNoReturn(req, rows) ==
    IF ~req.parses
    THEN [orders |-> rows, status |-> "400"]
    ELSE IF InsertFails(req, rows)
    THEN [orders |-> rows, status |-> "notifying"]
    ELSE [orders |-> Append(rows, req.order), status |-> "notifying"]

\* README.md:311-346  handleThrowData up to the notification loop
handleThrowDataStart(req, rows) ==
    IF ~req.parses
    THEN [orders |-> rows, status |-> "400"]
    ELSE IF InsertFails(req, rows)
    THEN [orders |-> rows, status |-> "500"]
    ELSE [orders |-> Append(rows, req.order), status |-> "notifying"]

Arrive ==
    /\ response.status # "notifying"
    /\ \E req \in Requests : \E r \in {handleThrowDataStart(req, orders)} :
           /\ orders' = r.orders
           /\ response' = [status |-> r.status, request |-> req, found |-> orders]
    /\ notices' = <<>>
    /\ UNCHANGED <<sessions, update, before, sent, scriptPos, input, output, stage,
                   sendErrors, channel, delivered, taken, notified>>

\* README.md:352-360  one turn of the loop over chatIDs: the send fails or not
Notify ==
    /\ response.status = "notifying"
    /\ Len(notices) < Len(response.request.chats)
    /\ \E failed \in BOOLEAN :
           notices' = Append(notices, [chat |-> response.request.chats[Len(notices) + 1],
                                       order |-> response.request.order,
                                       failed |-> failed])
    /\ UNCHANGED <<sessions, update, before, sent, scriptPos, input, output, stage,
                   sendErrors, channel, delivered, taken, notified, orders, response>>

\* README.md:363-366  the answer after the loop
Respond ==
    /\ response.status = "notifying"
    /\ Len(notices) = Len(response.request.chats)
    /\ response' = [response EXCEPT !.status = "200"]
    /\ UNCHANGED <<sessions, update, before, sent, scriptPos, input, output, stage,
                   sendErrors, channel, delivered, taken, notified, orders, notices>>

NextIngest == Arrive \/ Notify \/ Respond

SpecIngest == Init /\ [][NextIngest]_vars

-----------------------------------------------------------------------------
(* The date ranges of the report commands of the newer main                 *)
(* (README.md:572-609, 675-695, 1424-1452).  A time.Time is the record of   *)
(* its year, month and day and of the second of that day.                   *)

MaxParts == 3

\* unicode.IsSpace on the runes of the model
IsSpace(r) == r \in {" ", "\t", "\n"}

RECURSIVE TrimLeft(_)
TrimLeft(s) == IF s # <<>> /\ IsSpace(Head(s)) THEN TrimLeft(Tail(s)) ELSE s

RECURSIVE TrimRight(_)
TrimRight(s) ==
    IF s # <<>> /\ IsSpace(s[Len(s)]) THEN TrimRight(SubSeq(s, 1, Len(s) - 1)) ELSE s

\* strings.TrimSpace
TrimSpace(s) == TrimRight(TrimLeft(s))

RECURSIVE Split(_, _)
\* strings.Split(s, sep) for a one-rune sep: a string without sep is one part
Split(s, sep) ==
    IF Contains(s, sep)
    THEN <<CutBefore(s, sep)>> \o Split(CutAfter(s, sep), sep)
    ELSE <<s>>

\* the value of a decimal digit
DigitVal(r) == PosIn(Digits, r) - 1

\* time.daysIn
daysIn(month, year) ==
    IF month = 2
    THEN IF year % 4 = 0 /\ (year % 100 # 0 \/ year % 400 = 0) THEN 29 ELSE 28
    ELSE IF month \in {4, 6, 9, 11} THEN 30 ELSE 31

\* time.Time{}
ZeroTime == [year |-> 1, month |-> 1, day |-> 1, sec |-> 0]

\* time.getnum(s, true): two digits and the rest
getnum(s) ==
    IF Len(s) >= 2 /\ IsDigit(s[1]) /\ IsDigit(s[2])
    THEN [err |-> FALSE, n |-> DigitVal(s[1]) * 10 + DigitVal(s[2]), rest |-> From(s, 3)]
    ELSE [err |-> TRUE, n |-> 0, rest |-> s]

\* the literal '.' of the layout
skipDot(s) ==
    IF s # <<>> /\ s[1] = "."
    THEN [err |-> FALSE, rest |-> From(s, 2)]
    ELSE [err |-> TRUE, rest |-> s]

\* the year of the layout (2006): four runes, all digits
getYear(s) ==
    IF Len(s) >= 4 /\ \A i \in 1..4 : IsDigit(s[i])
    THEN [err |-> FALSE,
          n |-> DigitVal(s[1]) * 1000 + DigitVal(s[2]) * 100
                + DigitVal(s[3]) * 10 + DigitVal(s[4]),
          rest |-> From(s, 5)]
    ELSE [err |-> TRUE, n |-> 0, rest |-> s]

\* time.Parse("02.01.2006", value): day, '.', month, '.', year, nothing
\* after it, the month from 1 to 12 and the day one of the month
timeParse(value) ==
    With(getnum(value), LAMBDA day :
    With(skipDot(day.rest), LAMBDA dot1 :
    With(getnum(dot1.rest), LAMBDA month :
    With(skipDot(month.rest), LAMBDA dot2 :
    With(getYear(dot2.rest), LAMBDA year :
        IF day.err \/ dot1.err \/ month.err \/ dot2.err \/ year.err
           \/ month.n < 1 \/ month.n > 12
           \/ year.rest # <<>>
           \/ day.n < 1 \/ day.n > daysIn(month.n, year.n)
        THEN [err |-> TRUE, time |-> ZeroTime]
        ELSE [err |-> FALSE,
              time |-> [year |-> year.n, month |-> month.n, day |-> day.n, sec |-> 0]])))))

\* the day after the day of t
NextDay(t) ==
    IF t.day < daysIn(t.month, t.year) THEN [t EXCEPT !.day = t.day + 1]
    ELSE IF t.month < 12 THEN [t EXCEPT !.day = 1, !.month = t.month + 1]
    ELSE [t EXCEPT !.day = 1, !.month = 1, !.year = t.year + 1]

\* t.Add(d) for a duration d of less than a day, in seconds
TimeAdd(t, d) ==
    IF t.sec + d < 86400 THEN [t EXCEPT !.sec = t.sec + d]
    ELSE [NextDay(t) EXCEPT !.sec = t.sec + d - 86400]

\* 23*time.Hour + 59*time.Minute + 59*time.Second, in seconds
EndOfDay == 23 * 3600 + 59 * 60 + 59

NoFilter == [startDate |-> ZeroTime, endDate |-> ZeroTime, hasFilter |-> FALSE]

\* parseDateRange that leaves the end date at the start of its day
parseDateRangeStartOfDay(args) ==
    With(TrimSpace(args), LAMBDA trimmed :
        IF trimmed = <<>> THEN NoFilter
        ELSE With(Split(trimmed, "-"), LAMBDA parts :
            IF Len(parts) # 2 THEN NoFilter
            ELSE With(timeParse(TrimSpace(parts[1])), LAMBDA start :
                 With(timeParse(TrimSpace(parts[2])), LAMBDA end :
                     IF start.err \/ end.err THEN NoFilter
                     ELSE [startDate |-> start.time, endDate |-> end.time,
                           hasFilter |-> TRUE]))))

\* README.md:1424-1452
parseDateRange(args) ==
    With(TrimSpace(args), LAMBDA trimmed :
        IF trimmed = <<>> THEN NoFilter
        ELSE With(Split(trimmed, "-"), LAMBDA parts :
            IF Len(parts) # 2 THEN NoFilter
            ELSE With(timeParse(TrimSpace(parts[1])), LAMBDA start :
                 With(timeParse(TrimSpace(parts[2])), LAMBDA end :
                     IF start.err \/ end.err THEN NoFilter
                     ELSE [startDate |-> start.time,
                           endDate |-> TimeAdd(end.time, EndOfDay),
                           hasFilter |-> TRUE]))))

\* what a report command answers: the report over a range of event times or
\* over all orders, or the usage message
Report(range) == [kind |-> "report", range |-> range]
Usage == [kind |-> "usage", range |-> NoFilter]

\* README.md:675-695  handleKaynaklarCommand; handleKampanyalarCommand (736),
\* handleOrtamlarCommand (792), handleOrtalamaCommand (1018) and
\* handleExportCommand (1106) use parseDateRange in the same way
handleKaynaklarCommand(args) == Report(parseDateRange(args))

\* README.md:572-609  handleToplamCommand, which parses the range itself
handleToplamCommand(args) ==
    With(TrimSpace(args), LAMBDA trimmed :
        IF trimmed = <<>> THEN Report(NoFilter)
        ELSE With(Split(trimmed, "-"), LAMBDA parts :
            IF Len(parts) # 2 THEN Usage
            ELSE With(timeParse(TrimSpace(parts[1])), LAMBDA start :
                 IF start.err THEN Usage
                 ELSE With(timeParse(TrimSpace(parts[2])), LAMBDA end :
                     IF end.err THEN Usage
                     ELSE Report([startDate |-> start.time,
                                  endDate |-> TimeAdd(end.time, EndOfDay),
                                  hasFilter |-> TRUE])))))

\* the texts the arguments are made of: dates, among them the last day of
\* February of a leap year, and texts that are no dates (a day the month
\* does not have, a day of one digit, a year of two, text after the year,
\* another separator, nothing)
DateTexts ==
    {Runes("01.02.2024"), Runes("29.02.2024"), Runes("31.12.2023"),
     Runes("29.02.2023"), Runes("1.2.2024"), Runes("01.02.24"),
     Runes("01.02.2024x"), Runes("01/02/2024"), <<>>}

DateSeparators == {Runes("-"), Runes(" - ")}
DatePadding == {<<>>, Runes(" ")}

RECURSIVE JoinWith(_, _, _)
\* the parts from the i-th on, with sep between them
JoinWith(parts, sep, i) ==
    IF i > Len(parts) THEN <<>>
    ELSE parts[i] \o (IF i < Len(parts) THEN sep ELSE <<>>) \o JoinWith(parts, sep, i + 1)

\* the arguments of the commands: up to MaxParts texts with a separator
\* between them, with or without a space around
DateArguments ==
    {pad \o JoinWith(parts, sep, 1) \o pad :
        pad \in DatePadding, sep \in DateSeparators,
        parts \in UNION {[1..n -> DateTexts] : n \in 0..MaxParts}}

InitDates ==
    /\ input \in DateArguments
    /\ output = <<>>
    /\ stage = 0
    /\ sessions = NoSessions
    /\ update = NoUpdate
    /\ before = NoSessions
    /\ sent = <<>>
    /\ scriptPos = 0
    /\ sendErrors = {}
    /\ NoFeed

ApplyParseDateRange ==
    /\ stage = 0
    /\ output' = <<parseDateRange(input)>>
    /\ stage' = 1
    /\ UNCHANGED <<input, sessions, update, before, sent, scriptPos, sendErrors>>
    /\ UNCHANGED feed

ApplyKaynaklar ==
    /\ stage = 1
    /\ output' = Append(output, handleKaynaklarCommand(input))
    /\ stage' = 2
    /\ UNCHANGED <<input, sessions, update, before, sent, scriptPos, sendErrors>>
    /\ UNCHANGED feed

ApplyToplam ==
    /\ stage = 2
    /\ output' = Append(output, handleToplamCommand(input))
    /\ stage' = 3
    /\ UNCHANGED <<input, sessions, update, before, sent, scriptPos, sendErrors>>
    /\ UNCHANGED feed

NextDates == ApplyParseDateRange \/ ApplyKaynaklar \/ ApplyToplam

SpecDates == InitDates /\ [][NextDates]_vars

-----------------------------------------------------------------------------
(* Properties.  A state in which update is not NoUpdate is the state a      *)
(* handler leaves: before is the map it found, sessions the map it left,    *)
(* sent the requests it made.                                               *)

Sender == update.user
Chat == ChatOf(update.user)
HadSession == update.user \in DOMAIN before
IsText == update.kind = "message" /\ ~IsCommand(update.text)
IsCallback == update.kind = "callback"
IsCommandNamed(name) ==
    update.kind = "message" /\ IsCommand(update.text) /\ Command(update.text) = Runes(name)

\* what store holds for userID: <<>> for no session, <<session>> otherwise
Lookup(store, userID) == IF userID \in DOMAIN store THEN <<store[userID]>> ELSE <<>>

\* the sessions of the users other than the sender are what they were
OthersUntouched ==
    \A u \in Users \ {Sender} : Lookup(sessions, u) = Lookup(before, u)

\* the requests of kind "finalURL" among those sent
FinalLinks == {i \in 1..Len(sent) : sent[i].kind = "finalURL"}

ScenarioLink ==
    Runes("https://hayratyardim.org/bagis/genel-su-kuyusu/")
    \o Runes("?utm_source=meta&utm_medium=organic_social")
    \o Runes("&utm_campaign=su_kuyusu_genel&utm_content=test_genel_su_kuyusu")

\* C1: once user 1 has sent the example conversation (/build, the URL, meta,
\* organic_social, "Su Kuyusu Genel", "Test Genel Su Kuyusu", the skip
\* button), the bot has emitted exactly one final link, that link is the one
\* of the README with the parameters in the order source, medium, campaign,
\* content and no utm_term, and user 1 has no session any more.
ScenarioEmitsReadmeLink ==
    (scriptPos = Len(Script) /\ update = Script[Len(Script)]) =>
        /\ Cardinality(FinalLinks) = 1
        /\ \A i \in FinalLinks : sent[i].body[7] = ScenarioLink
        /\ ScriptUser \notin DOMAIN sessions

\* C2: whatever the sender had before (no session, or one at any step), after
\* /build the sender has a session at step 1 with every field empty, the
\* other users' sessions are untouched, and the first prompt has been sent.
BuildStartsFresh ==
    IsCommandNamed("build") =>
        /\ Sender \in DOMAIN sessions
        /\ sessions[Sender].Step = 1
        /\ sessions[Sender].SourceURL = <<>>
        /\ sessions[Sender].UTMSource = <<>>
        /\ sessions[Sender].UTMMedium = <<>>
        /\ sessions[Sender].Campaign = <<>>
        /\ sessions[Sender].Content = <<>>
        /\ sessions[Sender].Term = <<>>
        /\ OthersUntouched
        /\ DOMAIN sessions \subseteq Users
        /\ sent = <<Msg(Chat, "askSourceURL")>>

\* /build has replaced a session that had reached step 6
BuildReplacedLateSession ==
    /\ IsCommandNamed("build")
    /\ HadSession
    /\ before[Sender].Step = 6
    /\ before[Sender].Content # <<>>
    /\ sessions[Sender].Step = 1
    /\ sessions[Sender].Content = <<>>

\* C3: after /cancel the sender has no session and exactly one confirmation
\* has been sent, whether or not there was a session; without a session the
\* map is left as it was, so a second /cancel gives the state and the
\* confirmation of the first.
CancelDeletesAndConfirms ==
    IsCommandNamed("cancel") =>
        /\ Sender \notin DOMAIN sessions
        /\ OthersUntouched
        /\ ~HadSession => sessions = before
        /\ sent = <<Msg(Chat, "cancelled")>>

\* /cancel from a user without a session, while another user has one
CancelledWithoutSession ==
    /\ IsCommandNamed("cancel")
    /\ ~HadSession
    /\ sessions # NoSessions
    /\ sessions = before
    /\ sent = <<Msg(Chat, "cancelled")>>

\* C4: Step is always one of 1..6, and a handler other than /build of the
\* same user leaves a session that survives it either exactly as it was or
\* with Step one higher: Step never decreases and never skips.
StepMonotonic ==
    /\ \A u \in DOMAIN sessions : sessions[u].Step \in 1..6
    /\ \A u \in DOMAIN before \cap DOMAIN sessions :
           \/ IsCommandNamed("build") /\ u = Sender
           \/ sessions[u] = before[u]
           \/ sessions[u].Step = before[u].Step + 1

\* a text has taken a session from step 5 to step 6
StepAdvancedToSix ==
    /\ IsText
    /\ HadSession
    /\ before[Sender].Step = 5
    /\ Sender \in DOMAIN sessions
    /\ sessions[Sender].Step = 6

\* C5: in every stored session a field is non-empty exactly when its step
\* has been passed: SourceURL iff Step > 1, UTMSource iff Step > 2,
\* UTMMedium iff Step > 3, Campaign iff Step > 4, Content iff Step > 5.
FieldsFilledIffStepPassed ==
    \A u \in DOMAIN sessions :
        /\ (sessions[u].SourceURL # <<>>) <=> (sessions[u].Step > 1)
        /\ (sessions[u].UTMSource # <<>>) <=> (sessions[u].Step > 2)
        /\ (sessions[u].UTMMedium # <<>>) <=> (sessions[u].Step > 3)
        /\ (sessions[u].Campaign # <<>>) <=> (sessions[u].Step > 4)
        /\ (sessions[u].Content # <<>>) <=> (sessions[u].Step > 5)

\* C6: a text sent at step 1 is accepted exactly when url.Parse accepts it
\* and gives the scheme http or https; accepted, it is stored as it is, Step
\* becomes 2 and the keyboard of sources is sent; rejected, the map is left
\* as it was and exactly one error message is sent.
SourceURLValidated ==
    (IsText /\ HadSession /\ before[Sender].Step = 1) =>
        LET parsedURL == Parse(update.text)
        IN  IF ~parsedURL.err /\ parsedURL.Scheme \in {Runes("http"), Runes("https")}
            THEN /\ sessions = [before EXCEPT ![Sender].SourceURL = update.text,
                                              ![Sender].Step = 2]
                 /\ Len(sent) = 1
                 /\ sent[1].kind = "askUTMSource"
                 /\ sent[1].chat = Chat
            ELSE /\ sessions = before
                 /\ sent = <<Msg(Chat, "invalidURL")>>

\* a URL that parses, with another scheme, has been rejected at step 1
OtherSchemeRejected ==
    /\ IsText
    /\ update.text = URLOtherScheme
    /\ HadSession
    /\ before[Sender].Step = 1
    /\ sessions = before
    /\ sent = <<Msg(Chat, "invalidURL")>>

\* the term step 6 is to use for the update: the sanitized text, or nothing
\* for the skip button, the empty text and the skip keyword in any case
ExpectedTerm ==
    IF IsText /\ update.text # <<>> /\ ToLower(update.text) # Runes("atla")
    THEN sanitizeUTMValue(update.text)
    ELSE <<>>

\* C7: at step 6 a text and the skip button both finish the session: the
\* session is deleted and one final link is sent, assembled from the fields
\* of the session and the term; the term is the sanitized text, and it is
\* empty (so the link is the same, with no utm_term) for the skip button, the
\* empty text and the skip keyword in any case.
TermStepFinalizes ==
    (HadSession /\ before[Sender].Step = 6
     /\ (IsText \/ (IsCallback /\ update.text = Runes("skip_term")))) =>
        LET session == [before[Sender] EXCEPT !.Term = ExpectedTerm]
            link == finalURL(Parse(session.SourceURL), session)
        IN  /\ Sender \notin DOMAIN sessions
            /\ OthersUntouched
            /\ Cardinality(FinalLinks) = 1
            /\ sent[Len(sent)].kind = "finalURL"
            /\ sent[Len(sent)].chat = Chat
            /\ sent[Len(sent)].body[6] = ExpectedTerm
            /\ sent[Len(sent)].body[7] = link
            /\ Len(sent) = IF IsCallback THEN 2 ELSE 1

\* "Atla" sent at step 6 has given a link without a term
SkipKeywordFinalized ==
    /\ IsText
    /\ update.text = Runes("Atla")
    /\ HadSession
    /\ before[Sender].Step = 6
    /\ Sender \notin DOMAIN sessions
    /\ FinalLinks = {1}
    /\ sent[1].body[6] = <<>>
    /\ Index(sent[1].body[7], "?") > 0

\* C8: a button pressed by a user without a session is answered with the
\* "session not found" message, a text from a user without a session with the
\* hint to use /build; neither creates a session: the map is left as it was.
NoSessionNoEffect ==
    (~Waiting /\ ~HadSession /\ (IsText \/ IsCallback)) =>
        /\ sessions = before
        /\ IsCallback =>
               sent = <<Msg(Chat, "answerCallback"), Msg(Chat, "sessionNotFound")>>
        /\ IsText => sent = <<Msg(Chat, "useBuild")>>

\* a button pressed without a session while another user has one
ButtonWithoutSession ==
    /\ IsCallback
    /\ ~HadSession
    /\ sessions # NoSessions
    /\ sessions = before
    /\ sent[Len(sent)].kind = "sessionNotFound"

\* C9: a command goes to its handler whatever the session of the sender: it
\* is never taken as the input of the current step.  /build and /cancel act
\* on the session of the sender only; /start and an unknown command leave the
\* whole map as it was and send their one message.
CommandsRouted ==
    (update.kind = "message" /\ IsCommand(update.text)) =>
        CASE IsCommandNamed("build") ->
                 /\ sessions[Sender].Step = 1
                 /\ OthersUntouched
                 /\ sent = <<Msg(Chat, "askSourceURL")>>
          [] IsCommandNamed("cancel") ->
                 /\ Sender \notin DOMAIN sessions
                 /\ OthersUntouched
                 /\ sent = <<Msg(Chat, "cancelled")>>
          [] IsCommandNamed("start") ->
                 /\ sessions = before
                 /\ sent = <<Msg(Chat, "welcome")>>
          [] OTHER ->
                 /\ sessions = before
                 /\ sent = <<Msg(Chat, "unknownCommand")>>

\* an unknown command sent at step 4, where a text would be the campaign
UnknownCommandAtCampaignStep ==
    /\ update.kind = "message"
    /\ update.text = Runes("/toplam")
    /\ HadSession
    /\ before[Sender].Step = 4
    /\ sessions = before
    /\ sent = <<Msg(Chat, "unknownCommand")>>

\* C10: sanitizeUTMValue is idempotent: applied to its own result it gives
\* that result again, for every text of up to MaxLen runes over the space,
\* the ASCII letters of both cases and the twelve letters of the table.
SanitizeIdempotent == stage = 2 => output[2] = output[1]

\* the sanitizer has been applied twice to "I-dotted, space"
SanitizedTwice ==
    /\ stage = 2
    /\ input = <<"U+0130", " ">>
    /\ output[1] = <<"i", "_">>
    /\ output[2] = output[1]

\* C11: sanitizeUTMValue gives a result for every text; the result is the
\* text with every space turned into an underscore, every letter folded to
\* lower case and then every letter of the table replaced by its ASCII
\* letter: it has as many runes as the text, no space and no upper-case
\* letter, of the table or of ASCII, and 'Su Kuyusu Genel' gives
\* 'su_kuyusu_genel'.
SanitizeShape ==
    stage >= 1 =>
        /\ Len(output[1]) = Len(input)
        /\ \A i \in 1..Len(input) :
               /\ output[1][i] # " "
               /\ ~InSeq(UpperASCII, output[1][i])
               /\ ~InSeq(UpperTurkish, output[1][i])
               /\ output[1][i] \notin DOMAIN replacements
               /\ input[i] = " " => output[1][i] = "_"
               /\ InSeq(LowerASCII, input[i]) => output[1][i] = input[i]
               /\ InSeq(UpperASCII, input[i]) =>
                      output[1][i] = LowerASCII[PosIn(UpperASCII, input[i])]
               /\ input[i] \in {"U+015F", "U+015E"} => output[1][i] = "s"
               /\ input[i] \in {"U+0131", "U+0130"} => output[1][i] = "i"
               /\ input[i] \in {"U+011F", "U+011E"} => output[1][i] = "g"
               /\ input[i] \in {"U+00FC", "U+00DC"} => output[1][i] = "u"
               /\ input[i] \in {"U+00F6", "U+00D6"} => output[1][i] = "o"
               /\ input[i] \in {"U+00E7", "U+00C7"} => output[1][i] = "c"
        /\ input = Runes("Su Kuyusu Genel") =>
               output[1] = Runes("su_kuyusu_genel")

\* the sanitizer has been applied to the campaign name of the example
SanitizedCampaignName ==
    /\ stage >= 1
    /\ input = Runes("Su Kuyusu Genel")
    /\ output[1] = Runes("su_kuyusu_genel")

\* the five recognized tag keys (main.go:301-307)
TagKeys ==
    {Runes("utm_source"), Runes("utm_medium"), Runes("utm_campaign"),
     Runes("utm_content"), Runes("utm_term")}

RECURSIVE SplitQuery(_)
\* the parameters of a query text: what stands between the '&'
SplitQuery(q) ==
    IF q = <<>> THEN <<>> ELSE <<CutBefore(q, "&")>> \o SplitQuery(CutAfter(q, "&"))

\* the query text of a link: between the first '?' and the '#'
QueryText(link) == CutAfter(CutBefore(link, "#"), "?")

\* what is left of '?' and '#': scheme, host and path
HeadText(link) == CutBefore(CutBefore(link, "#"), "?")

\* the values the parameters give to a key, in their order
ValuesFor(pieces, key) ==
    LET own == SelectSeq(pieces, LAMBDA p : CutBefore(p, "=") = key)
    IN  SubSeq([i \in 1..Len(own) |-> CutAfter(own[i], "=")], 1, Len(own))

\* the values, as a query writes them
EscapedValues(values) == SubSeq([i \in 1..Len(values) |-> QueryEscape(values[i])], 1, Len(values))

\* C12: the link keeps every parameter of the source URL whose key is none
\* of the five tag keys, with the same key and the same values, and keeps
\* scheme, host and path: the source URL ...?ref=abc gives a link that
\* holds ref=abc.
ForeignParametersKept ==
    stage >= 1 =>
        /\ HeadText(output[1]) = input.head
        /\ \A i \in 1..Len(input.pieces) :
               LET key == CutBefore(input.pieces[i], "=")
               IN  key \notin TagKeys =>
                       ValuesFor(SplitQuery(QueryText(output[1])), key)
                           = EscapedValues(ValuesFor(input.pieces, key))

\* the final link sent, when exactly one was
TheLink == sent[CHOOSE i \in FinalLinks : TRUE].body[7]

\* C13: for a source URL without query and the fields google, cpc,
\* 'Su Kuyusu Genel', 'Kreatif Ismi' and no term, the query of the final
\* link holds exactly the four keys utm_source, utm_medium, utm_campaign and
\* utm_content, with the values google, cpc, su_kuyusu_genel and
\* kreatif_ismi, and no utm_term.
ExampleHasFourTags ==
    (scriptPos = Len(ExampleScript) /\ update = ExampleScript[Len(ExampleScript)]) =>
        /\ Cardinality(FinalLinks) = 1
        /\ HeadText(TheLink) = Runes("https://example.org/landing")
        /\ Len(SplitQuery(QueryText(TheLink))) = 4
        /\ {SplitQuery(QueryText(TheLink))[i] : i \in 1..4}
               = {Runes("utm_source=google"), Runes("utm_medium=cpc"),
                  Runes("utm_campaign=su_kuyusu_genel"),
                  Runes("utm_content=kreatif_ismi")}

\* the conversation has ended with the skip button and a link was sent
ExampleLinkSent ==
    /\ scriptPos = Len(ExampleScript)
    /\ update = ExampleScript[Len(ExampleScript)]
    /\ ScriptUser \in DOMAIN before
    /\ before[ScriptUser].Campaign = Runes("su_kuyusu_genel")
    /\ before[ScriptUser].Term = <<>>
    /\ FinalLinks # {}

\* C14: the assembly is idempotent on its own result: the link built from a
\* session whose source URL is itself a link built with the same fields is
\* that link again.
AssembleIdempotent == stage >= 2 => output[2] = output[1]

\* a link with a percent escape, a '+' and a fragment has been assembled
\* again
ReassembledEscapedLink ==
    /\ stage >= 2
    /\ input.pieces = <<Runes("a=2"), Runes("a=1")>>
    /\ input.fragment = Runes("top")
    /\ Contains(output[1], "%")
    /\ output[2] = output[1]

\* the keys of the link's query are in ascending order, equal keys together
KeysAscending(link) ==
    LET pairs == SplitQuery(QueryText(link))
    IN  \A i \in 1..(Len(pairs) - 1) :
            \/ CutBefore(pairs[i], "=") = CutBefore(pairs[i + 1], "=")
            \/ StrLess(CutBefore(pairs[i], "="), CutBefore(pairs[i + 1], "="))

\* the parameters in the opposite order give every key the same values in
\* the same order
SameValuesPerKey(pieces) ==
    \A i \in 1..Len(pieces) :
        ValuesFor(pieces, CutBefore(pieces[i], "="))
            = ValuesFor(Reversed(pieces), CutBefore(pieces[i], "="))

UnrecognizedSelection ==
    /\ IsCallback
    /\ HadSession
    /\ \/ before[Sender].Step \in {1, 4, 5}
       \/ before[Sender].Step = 2 /\ ~InSeq(utmSourceOptions, update.text)
       \/ before[Sender].Step = 3 /\ ~InSeq(utmMediumOptions, update.text)
       \/ before[Sender].Step = 6 /\ update.text # Runes("skip_term")

\* C16: a selection that the step of the open session does not offer (no
\* configured option at step 2 or 3, not 'skip_term' at step 6, any
\* selection at step 1, 4 or 5) leaves the session as it was and makes the
\* bot send a message to the chat.
UnrecognizedSelectionCorrected ==
    UnrecognizedSelection =>
        /\ sessions = before
        /\ \E i \in 1..Len(sent) : sent[i].kind # "answerCallback"

\* C17: the UTMSource of every stored session is empty or one of
\* utmSourceOptions and its UTMMedium is empty or one of utmMediumOptions,
\* whatever buttons were pressed, a repeated or stale one included.
SelectionsAreOptions ==
    \A u \in DOMAIN sessions :
        /\ sessions[u].UTMSource = <<>> \/ InSeq(utmSourceOptions, sessions[u].UTMSource)
        /\ sessions[u].UTMMedium = <<>> \/ InSeq(utmMediumOptions, sessions[u].UTMMedium)

\* the fields of the sender's session that the handler changed
FieldsChanged ==
    {f \in {"SourceURL", "UTMSource", "UTMMedium", "Campaign", "Content", "Term"} :
        sessions[Sender][f] # before[Sender][f]}

\* C18: as long as a session is neither deleted nor replaced by /build, an
\* event changes SourceURL only at step 1, where it was empty, to the text
\* of an accepted message; it changes UTMSource only at step 2, UTMMedium
\* only at step 3, Campaign only at step 4 and Content only at step 5; an
\* event changes at most one field, and a session it changes is one step
\* further.
FieldsWrittenOnce ==
    (HadSession /\ Sender \in DOMAIN sessions /\ ~IsCommandNamed("build")) =>
        /\ "SourceURL" \in FieldsChanged =>
               /\ before[Sender].Step = 1
               /\ before[Sender].SourceURL = <<>>
               /\ IsText
               /\ isValidURL(update.text)
               /\ sessions[Sender].SourceURL = update.text
        /\ "UTMSource" \in FieldsChanged =>
               before[Sender].Step = 2 /\ before[Sender].UTMSource = <<>> /\ IsCallback
        /\ "UTMMedium" \in FieldsChanged =>
               before[Sender].Step = 3 /\ before[Sender].UTMMedium = <<>> /\ IsCallback
        /\ "Campaign" \in FieldsChanged =>
               before[Sender].Step = 4 /\ before[Sender].Campaign = <<>> /\ IsText
        /\ "Content" \in FieldsChanged =>
               before[Sender].Step = 5 /\ before[Sender].Content = <<>> /\ IsText
        /\ Cardinality(FieldsChanged) <= 1
        /\ sessions[Sender] # before[Sender] =>
               sessions[Sender].Step = before[Sender].Step + 1
        /\ OthersUntouched

\* a text given as the content, at step 5, of a session whose source URL
\* and campaign were written earlier: only Content has changed
ContentWrittenOthersKept ==
    /\ HadSession
    /\ Sender \in DOMAIN sessions
    /\ IsText
    /\ before[Sender].Step = 5
    /\ before[Sender].SourceURL = URLExample
    /\ before[Sender].Campaign # <<>>
    /\ FieldsChanged = {"Content"}

\* what the handler of update makes of the map it found, no send failing
Handled ==
    IF update.kind = "callback"
    THEN handleCallbackResult(Chat, Sender, update.text, before)
    ELSE handleMessageResult(Chat, Sender, update.text, before)

SessionsEndOnlyByOwner ==
    /\ Waiting => sessions = before
    /\ ~Waiting =>
           \A u \in DOMAIN before :
               /\ u # Sender => Lookup(sessions, u) = <<before[u]>>
               /\ u \notin DOMAIN sessions =>
                      /\ u = Sender
                      /\ \/ IsCommandNamed("cancel")
                         \/ before[u].Step = 6 /\ FinalLinks # {}
               /\ (u \in DOMAIN sessions /\ sessions[u].Step < before[u].Step) =>
                      u = Sender /\ IsCommandNamed("build")

\* user 1 has completed at step 6 and the session of user 2, who sent
\* nothing, is in the map as it was
OwnerCompletedOtherStays ==
    /\ Sender = 1
    /\ HadSession
    /\ before[1].Step = 6
    /\ FinalLinks # {}
    /\ 1 \notin DOMAIN sessions
    /\ 2 \in DOMAIN before
    /\ Lookup(sessions, 2) = <<before[2]>>

\* C22: the rows built from an option list of n options with a width of 2
\* or 3 hold the options in order, each once, every button with its option
\* as label and as payload; there are ceil(n / width) rows, none empty,
\* every row but the last of exactly width buttons, the last of 1 to width.
KeyboardGrouping ==
    stage = 1 =>
        LET rows == output[1]
            n == Len(input.options)
            w == input.width
        IN  /\ Len(rows) = (n + w - 1) \div w
            /\ \A r \in 1..Len(rows) :
                   /\ Len(rows[r]) >= 1
                   /\ Len(rows[r]) <= w
                   /\ r < Len(rows) => Len(rows[r]) = w
                   /\ r = Len(rows) => (r - 1) * w + Len(rows[r]) = n
                   /\ \A c \in 1..Len(rows[r]) :
                          /\ rows[r][c].text = input.options[(r - 1) * w + c]
                          /\ rows[r][c].data = rows[r][c].text

\* six options, a multiple of the width, grouped by 3: two full rows
SixOptionsInTwoRows ==
    /\ stage = 1
    /\ Len(input.options) = 6
    /\ input.width = 3
    /\ Len(output[1]) = 2
    /\ Len(output[1][2]) = 3

\* C23: the loop takes the updates one at a time in the order of their
\* delivery: the updates waiting on the channel are those delivered after
\* the one taken last, in order, so each update is taken only when the
\* handler of the one before it has returned; and the sessions are what
\* the handlers made them, whatever the HTTP endpoint does meanwhile.
LoopHandlesInOrder ==
    /\ taken + Len(channel) = delivered
    /\ \A i \in 1..Len(channel) : channel[i].id = taken + i
    /\ Waiting => sessions = before
    /\ ~Waiting => sessions = Handled.sessions /\ taken >= 1

\* the handler of the second update has run while a third waits on the
\* channel and the endpoint has handled an order
SecondHandledThirdWaiting ==
    /\ ~Waiting
    /\ taken = 2
    /\ Len(channel) >= 1
    /\ notified >= 1
    /\ sessions # NoSessions

\* the values the query of the first link gives to a key
LinkValues(name) == ValuesFor(SplitQuery(QueryText(output[1])), Runes(name))

\* C24: whatever tag parameters the source URL carries, with one value or
\* several, the link carries utm_source, utm_medium, utm_campaign and
\* utm_content once each, with the value of the session, and, when the term
\* of the session is not empty, utm_term once with that term.
TagsOverwritten ==
    stage >= 1 =>
        /\ LinkValues("utm_source") = <<QueryEscape(input.fields.UTMSource)>>
        /\ LinkValues("utm_medium") = <<QueryEscape(input.fields.UTMMedium)>>
        /\ LinkValues("utm_campaign") = <<QueryEscape(input.fields.Campaign)>>
        /\ LinkValues("utm_content") = <<QueryEscape(input.fields.Content)>>
        /\ input.fields.Term # <<>> =>
               LinkValues("utm_term") = <<QueryEscape(input.fields.Term)>>

\* a source URL with two values of utm_source has given a link with the
\* one of the session
TwoSourcesReplaced ==
    /\ stage >= 1
    /\ input.pieces = <<Runes("utm_source=old"), Runes("utm_source=x")>>
    /\ LinkValues("utm_source") = <<Runes("google")>>

\* C25: when url.Parse rejects the stored source URL at step 6, the text or
\* the skip button gets the error message and no link, and the session is
\* not deleted: it stays at step 6 with its fields, the term being the
\* sanitized text when the event was a text that is no skip.
ParseErrorKeepsSession ==
    (HadSession /\ before[Sender].Step = 6 /\ Parse(before[Sender].SourceURL).err
     /\ (IsText \/ (IsCallback /\ update.text = Runes("skip_term")))) =>
        /\ FinalLinks = {}
        /\ sent[Len(sent)] = Msg(Chat, "urlError")
        /\ Len(sent) = IF IsCallback THEN 2 ELSE 1
        /\ Sender \in DOMAIN sessions
        /\ sessions[Sender] =
               [before[Sender] EXCEPT
                   !.Term = IF ExpectedTerm # <<>> THEN ExpectedTerm ELSE @]
        /\ OthersUntouched

\* a term was sent for a session whose source URL has a space in the host:
\* the session is still there, at step 6, with the term
TermStoredLinkRefused ==
    /\ HadSession
    /\ before[Sender].SourceURL = Runes("http://a b.io")
    /\ update = MessageUpdate(1, Runes("Reklam Seti"))
    /\ sent = <<Msg(Chat, "urlError")>>
    /\ Sender \in DOMAIN sessions
    /\ sessions[Sender].Step = 6
    /\ sessions[Sender].Term = Runes("reklam_seti")

\* the prompt of a step, sent to the sender's chat
PromptOf(step) ==
    CASE step = 1 -> Msg(Chat, "askSourceURL")
      [] step = 2 -> askUTMSource(Chat)
      [] step = 3 -> askUTMMedium(Chat)
      [] step = 4 -> Msg(Chat, "askCampaign")
      [] step = 5 -> Msg(Chat, "askContent")
      [] step = 6 -> askUTMTerm(Chat)

\* the requests that are prompts of a step or the final link
Prompts ==
    SelectSeq(sent, LAMBDA request :
        request.kind \in {"askSourceURL", "askUTMSource", "askUTMMedium", "askCampaign",
                          "askContent", "askUTMTerm", "finalURL"})

\* what was sent beside the answer to the callback
Messages == SelectSeq(sent, LAMBDA request : request.kind # "answerCallback")

\* C26: an event that moves the sender's session to a step sends one
\* message, the prompt of that step (source keyboard at 2, medium keyboard
\* at 3, campaign prompt at 4, content prompt at 5, term prompt with the
\* skip button at 6, and the source URL prompt for /build); the event that
\* completes the session sends the final link and nothing else; any other
\* event sends no prompt.  So the last prompt sent to a user is the one of
\* the step of the session they have.
PromptMatchesStep ==
    ~Waiting =>
        IF Sender \in DOMAIN sessions
           /\ (IsCommandNamed("build")
               \/ (HadSession /\ sessions[Sender].Step # before[Sender].Step))
        THEN Messages = <<PromptOf(sessions[Sender].Step)>>
        ELSE IF HadSession /\ Sender \notin DOMAIN sessions /\ ~IsCommandNamed("cancel")
        THEN Len(Messages) = 1 /\ Messages[1].kind = "finalURL"
        ELSE Prompts = <<>>

\* the content text has moved the session to step 6 and the term prompt
\* with the skip button was sent
TermPromptSent ==
    /\ IsText
    /\ HadSession
    /\ before[Sender].Step = 5
    /\ Sender \in DOMAIN sessions
    /\ sessions[Sender].Step = 6
    /\ sent = <<askUTMTerm(Chat)>>
    /\ sent[1].rows[1][1].data = Runes("skip_term")

\* the handler of an update of user 1 has sent the final link and deleted
\* the session
Completed ==
    /\ update.user = ScriptUser
    /\ FinalLinks # {}
    /\ ScriptUser \notin DOMAIN sessions

\* C27: a user who has a session and keeps supplying the input its step
\* accepts, with no /build and no /cancel, is eventually sent the final
\* link, and the session is deleted; every such input moves the session
\* one step on, so that from step 1 the link comes with the sixth input.
SuppliedInputsComplete ==
    /\ [](ScriptUser \in DOMAIN sessions => sessions[ScriptUser].Step = scriptPos + 1)
    /\ []((update.user = ScriptUser /\ FinalLinks # {}) => (Completed /\ scriptPos = 6))
    /\ (ScriptUser \in DOMAIN sessions) ~> Completed

\* the sixth input of user 1 has brought the link while user 2 has a
\* session of their own
SixthInputCompleted ==
    /\ Completed
    /\ scriptPos = 6
    /\ 2 \in DOMAIN sessions

\* a step that creates or changes a session either stores a new session at
\* step 1 or is the handling of an update of its owner, of the kind the step
\* accepts, that moves it one step on
AcceptedInOrder ==
    \A u \in DOMAIN sessions' :
        (u \notin DOMAIN sessions \/ sessions'[u] # sessions[u]) =>
            \/ sessions'[u].Step = 1
            \/ /\ u \in DOMAIN sessions
               /\ update'.user = u
               /\ sessions'[u].Step = sessions[u].Step + 1
               /\ update'.kind = IF sessions[u].Step \in {2, 3} THEN "callback" ELSE "message"

\* C28: a final link is sent only by the handler of an update of a user
\* whose session is at step 6, which a session reaches only from step 1 by
\* an accepted URL, two selections and two texts in that order; the handler
\* sends one link and has deleted the session when it returns, so a session
\* yields at most one link.
LinkOnlyAtStepSix ==
    /\ [](FinalLinks # {} =>
            /\ HadSession
            /\ before[Sender].Step = 6
            /\ isValidURL(before[Sender].SourceURL)
            /\ before[Sender].UTMSource # <<>>
            /\ before[Sender].UTMMedium # <<>>
            /\ Cardinality(FinalLinks) = 1
            /\ Sender \notin DOMAIN sessions)
    /\ [][AcceptedInOrder]_vars

\* the skip button of user 1 at step 6 has brought the link while user 2
\* is at step 6 too
LinkSentBySkipButton ==
    /\ FinalLinks # {}
    /\ Sender = 1
    /\ IsCallback
    /\ before[Sender].Step = 6
    /\ 2 \in DOMAIN sessions
    /\ sessions[2].Step = 6

\* C29: a text that is no command, sent while the sender's session awaits
\* a selection (step 2 or 3), is dropped: no session changes, nothing is
\* sent, and the session still takes the selection: any button pressed
\* next moves it one step on.
TextDroppedAtSelectionSteps ==
    (~Waiting /\ IsText /\ HadSession /\ before[Sender].Step \in {2, 3}) =>
        /\ sessions = before
        /\ sent = <<>>
        /\ \A data \in Payloads :
              With(handleCallbackResult(Chat, Sender, data, sessions), LAMBDA r :
                  /\ Sender \in DOMAIN r.sessions
                  /\ r.sessions[Sender].Step = before[Sender].Step + 1)

\* user 1 has typed a text at the medium keyboard
TextTypedAtMediumStep ==
    /\ ~Waiting
    /\ IsText
    /\ update.text = TextTurkish
    /\ HadSession
    /\ before[Sender].Step = 3
    /\ sessions[Sender].Step = 3

\* C30: whatever update of a user is handled (command, text or button,
\* accepted or not), every other user has a session after it exactly if
\* they had one before it, with the same step and the same fields; only the
\* entry of the sender is created, changed or deleted.
UserIsolation ==
    ~Waiting =>
        /\ \A u \in Users \ {Sender} :
              /\ u \in DOMAIN sessions <=> u \in DOMAIN before
              /\ u \in DOMAIN before => sessions[u] = before[u]
        /\ {u \in Users : Lookup(sessions, u) # Lookup(before, u)} \subseteq {Sender}

\* user 1 has cancelled their session at step 4 while user 2 has one at
\* step 3
CancelledBesideOtherSession ==
    /\ Sender = 1
    /\ IsCommandNamed("cancel")
    /\ HadSession
    /\ before[1].Step = 4
    /\ 1 \notin DOMAIN sessions
    /\ 2 \in DOMAIN sessions
    /\ sessions[2].Step = 3

\* C31: every session in the map has a step from 1 to 6, whether the loop
\* waits or a handler has just returned; the map the handler found had
\* such steps too.
StoredStepsInRange ==
    /\ \A u \in DOMAIN sessions : sessions[u].Step \in 1..6
    /\ \A u \in DOMAIN before : before[u].Step \in 1..6

\* the map holds a session at the first step and one at the last
StoredAtFirstAndLastStep ==
    /\ DOMAIN sessions = {1, 2}
    /\ sessions[1].Step = 6
    /\ sessions[2].Step = 1

\* session.Term as the final link message shows it (the sixth value
\* formatted into the text)
TermOfLink(request) == request.body[6]

\* C32: no session in the map has a term, neither while the loop waits nor
\* when a handler has returned: a term is written only by the handler of a
\* text at step 6, which sends the link made with it and deletes the
\* session before it returns.
TermNeverStored ==
    /\ \A u \in DOMAIN sessions : sessions[u].Term = <<>>
    /\ \A i \in FinalLinks :
          TermOfLink(sent[i]) # <<>> =>
              /\ IsText
              /\ before[Sender].Step = 6
              /\ TermOfLink(sent[i]) = sanitizeUTMValue(update.text)

\* user 1 has typed a term at step 6 and the link shows it, while user 2
\* has a session
TypedTermInLink ==
    /\ Sender = 1
    /\ IsText
    /\ update.text = TextTurkish
    /\ \E i \in FinalLinks : TermOfLink(sent[i]) # <<>>
    /\ 2 \in DOMAIN sessions

\* the update is one of those that reach sendFinalURL at step 6: a text
\* that is no command (main.go:180-186) or the skip button (main.go:221-224)
ReachesSendFinalURL == IsText \/ (IsCallback /\ update.text = Runes("skip_term"))

SourceTerms == ValuesFor(input.pieces, Runes("utm_term"))

\* C35: when the term of the session is empty, the link has the utm_term
\* parameters of the source URL and no other: none when the source URL has
\* none, and otherwise the values the source URL gives, in its order.
TermKeptAsInSource ==
    (stage >= 1 /\ input.fields.Term = <<>>) =>
        LinkValues("utm_term") = EscapedValues(SourceTerms)

\* what holds instead: the link has the utm_term values that url.Values
\* took from the source URL, which leaves out every parameter that holds a
\* semicolon
TermKeptAsParsed ==
    (stage >= 1 /\ input.fields.Term = <<>>) =>
        LinkValues("utm_term") =
            EscapedValues(SelectSeq(SourceTerms, LAMBDA value : ~Contains(value, ";")))

\* C36: what the bot sends to user 1, the final link included, and the
\* session it leaves them are those of the run in which user 1 sends the
\* same updates since their last /build and nobody else sends anything:
\* the updates of the other users, whatever they are, change neither.
LinkOfOwnEventsOnly ==
    /\ DOMAIN input \subseteq {ScriptUser}
    /\ Waiting => Lookup(sessions, ScriptUser) = Lookup(input, ScriptUser)
    /\ (~Waiting /\ Sender = ScriptUser) =>
          With(AloneOutcome(update, input), LAMBDA alone :
              /\ sent = alone.sent
              /\ Lookup(sessions, ScriptUser) = Lookup(alone.sessions, ScriptUser))
    /\ (~Waiting /\ Sender # ScriptUser) =>
          Lookup(sessions, ScriptUser) = Lookup(input, ScriptUser)

\* user 1 has got a link with a term while user 2 is in the middle of a
\* conversation of their own
LinkSentAmongOthers ==
    /\ Sender = ScriptUser
    /\ \E i \in FinalLinks : TermOfLink(sent[i]) # <<>>
    /\ 2 \in DOMAIN sessions
    /\ sessions[2].Step = 4

\* C37: handleThrowData sends a notification for an order only when it has
\* inserted its row; a body that does not parse is answered with 400, and
\* an insert that fails (a duplicate order_id among the reasons) with 500,
\* both with the table as it was and no notification; a request whose row
\* was inserted is answered with success after one send to every
\* notification chat, in their order, whichever of the sends failed.
NotifiedAfterInsert ==
    /\ \A i \in 1..Len(notices) :
          /\ response.status \in {"notifying", "200"}
          /\ notices[i].order = response.request.order
          /\ \E j \in 1..Len(orders) : orders[j] = notices[i].order
          /\ notices[i].chat = response.request.chats[i]
    /\ response.status = "400" =>
          ~response.request.parses /\ orders = response.found /\ notices = <<>>
    /\ response.status = "500" =>
          /\ response.request.parses
          /\ InsertFails(response.request, response.found)
          /\ orders = response.found
          /\ notices = <<>>
    /\ response.status \in {"notifying", "200"} =>
          /\ response.request.parses
          /\ ~InsertFails(response.request, response.found)
          /\ orders = Append(response.found, response.request.order)
    /\ response.status = "200" => Len(notices) = Len(response.request.chats)
    /\ \A i, j \in 1..Len(orders) : orders[i] = orders[j] => i = j

\* a second order was answered with success although the send to the first
\* of two chats failed; the second chat was notified
SuccessDespiteFailedSend ==
    /\ response.status = "200"
    /\ Len(orders) = 2
    /\ Len(notices) = 2
    /\ notices[1].failed
    /\ ~notices[2].failed

\* a text of the form DD.MM.YYYY that names a day of the calendar
IsDateText(s) ==
    /\ Len(s) = 10
    /\ \A i \in {1, 2, 4, 5, 7, 8, 9, 10} : IsDigit(s[i])
    /\ s[3] = "." /\ s[6] = "."
    /\ DigitVal(s[4]) * 10 + DigitVal(s[5]) \in 1..12
    /\ DigitVal(s[1]) * 10 + DigitVal(s[2]) \in
           1..daysIn(DigitVal(s[4]) * 10 + DigitVal(s[5]),
                     DigitVal(s[7]) * 1000 + DigitVal(s[8]) * 100
                     + DigitVal(s[9]) * 10 + DigitVal(s[10]))

\* the start of the day a date text names
DateOf(s) ==
    [year |-> DigitVal(s[7]) * 1000 + DigitVal(s[8]) * 100
              + DigitVal(s[9]) * 10 + DigitVal(s[10]),
     month |-> DigitVal(s[4]) * 10 + DigitVal(s[5]),
     day |-> DigitVal(s[1]) * 10 + DigitVal(s[2]),
     sec |-> 0]

\* the argument without the space around it, and what it has on the two
\* sides of its first '-'
RangeText == TrimSpace(input)
RangeLeft == TrimSpace(CutBefore(RangeText, "-"))
RangeRight == TrimSpace(CutAfter(RangeText, "-"))

\* the argument is two dates with one '-' between them
WellFormedRange ==
    /\ Count(RangeText, "-") = 1
    /\ IsDateText(RangeLeft)
    /\ IsDateText(RangeRight)

\* C38: parseDateRange reports a filter exactly for an argument that,
\* trimmed, is two texts DD.MM.YYYY with one '-' between them, and then
\* returns the start of the first day and the second 23:59:59 of the last;
\* for any other argument it reports no filter.  /kaynaklar and the other
\* commands that call it then answer with the report over all orders,
\* while /toplam answers an argument that is neither empty nor a range
\* with the usage message and no report.
DateRangeParsed ==
    stage = 3 =>
        /\ output[1].hasFilter <=> WellFormedRange
        /\ WellFormedRange =>
               /\ output[1].startDate = DateOf(RangeLeft)
               /\ output[1].endDate = [DateOf(RangeRight) EXCEPT !.sec = 86399]
        /\ ~WellFormedRange => output[1] = NoFilter
        /\ output[2] = Report(output[1])
        /\ output[3] = IF WellFormedRange THEN Report(output[1])
                       ELSE IF RangeText = <<>> THEN Report(NoFilter)
                       ELSE Usage

\* a range that ends on a day February 2023 does not have: /kaynaklar has
\* answered with the report over all orders, /toplam with the usage message
MalformedRangeAnswered ==
    /\ stage = 3
    /\ input = Runes(" 01.02.2024 - 29.02.2023 ")
    /\ output[2] = Report(NoFilter)
    /\ output[3] = Usage

=============================================================================
